---- MODULE Spec2Model ----
(***************************************************************************)
(* Model of the property compliance report service:                        *)
(*   - get_property_identifiers        (src/python/generate_report.py)     *)
(*   - get_comprehensive_compliance_data (src/python/generate_report.py)   *)
(*   - NYCOpenDataClient.get_data      (src/python/NYC_data.py)            *)
(*   - generate_compliance_report      (src/python/app.py)                 *)
(*   - PhillyEnhancedDataClient        (src/philly.py)                     *)
(*   - get_philly_compliance_data      (src/python/generate_philly_report.py) *)
(*                                                                         *)
(* Text values whose characters matter (house numbers, addresses, BBLs)    *)
(* are sequences of one-character strings; opaque values (BIN, borough)    *)
(* are strings.  Python's None is the string "None" for opaque values and  *)
(* NoneT for text values.                                                  *)
(***************************************************************************)
EXTENDS Integers, Sequences, FiniteSets, TLC

VARIABLES
    address,        \* the request's address text (input of the resolver)
    features,       \* the geocoder's answer: [ok, rows] or Pending
    scan,           \* index of the candidate the resolver loop is looking at
    best_match,     \* index of the matching candidate, 0 while none
    identifiers,    \* what get_property_identifiers returned (NoIds = None)
    pc,             \* position of the request in the pipeline
    strategies,     \* the strategy list of the current category loop
    idx,            \* index of the current strategy in strategies
    data,           \* the local `data`: what the last get_data call returned
    result,         \* the result dict of get_comprehensive_compliance_data
    queries,        \* every get_data call issued so far, <<dataset, strategy>>
    found_using,    \* per category, the strategy named by its "Found ... using" line
    failed,         \* strategies of the current block whose call hit get_data's except
    rejected,       \* strategies of the current block skipped for "BIN mismatch"
    registry,       \* what each Philadelphia registry answers for the address
    down,           \* the registry that is failing during the first request
    request,        \* 1 or 2: which request for the address is being served
    fetched,        \* permits, violations, ... of get_comprehensive_property_data
    property_data,  \* what get_comprehensive_property_data returned
    compliance_data,\* what get_philly_compliance_data returned
    first,          \* compliance_data of the first request
    scores,         \* what calculate_scores / calculate_philly_scores returned
    response,       \* the HTTP answer of generate_compliance_report
    geocoder_calls, \* number of requests sent to the geocoder
    first_response, \* response of the first request for the address
    clock,          \* days gone by since the first request arrived
    upstream,       \* the NYC datasets' answers while they are held fixed
    running,        \* the request whose handler holds the processor
    parked,         \* the locals of the request that waits for the processor
    alone,          \* per request, the response it got when served alone
    violationtype,   \* the text handed to _categorize_violation_risk
    risk_type,      \* what _categorize_violation_risk returned for it
    mechanical_permits, \* the permits get_boiler_data works on
    permit_idx,     \* index of the permit its loop is looking at
    device_info,    \* what parse_boiler_device_info returned last
    boiler_devices, \* the devices get_boiler_data has collected
    boiler_report,  \* what get_boiler_data returned
    permit_data     \* the permit record handed to parse_boiler_device_info

vars == <<address, features, scan, best_match, identifiers, pc, strategies, idx,
          data, result, queries, found_using, failed, rejected, registry, down,
          request, fetched, property_data, compliance_data, first, scores,
          response, geocoder_calls, first_response, clock, upstream, running,
          parked, alone, violationtype, risk_type,
          mechanical_permits, permit_idx, device_info, boiler_devices,
          boiler_report, permit_data>>

-----------------------------------------------------------------------------
(* Bounds *)

MaxRecs == 2        \* longest HPD / DOB violation answer
MaxDevices == 1     \* longest elevator / boiler answer
MaxPermits == 1     \* longest electrical permit answer
MaxCands == 2       \* longest geocoder candidate list
MaxViolations == 5  \* longest violation list handed to the Philadelphia scorers
MaxScoredPermits == 1           \* longest permit list handed to them
MaxScoredCertifications == 1    \* longest certification list handed to them

-----------------------------------------------------------------------------
(* Python values *)

None == "None"
NoneT == <<"None">>

Truthy(x) == x # None /\ x # ""
TruthyT(t) == t # NoneT /\ t # <<>>

Range(s) == {s[i] : i \in DOMAIN s}

RECURSIVE LStrip(_, _)
LStrip(t, ch) == IF t # <<>> /\ Head(t) = ch THEN LStrip(Tail(t), ch) ELSE t

RECURSIVE RStrip(_, _)
RStrip(t, ch) ==
    IF t # <<>> /\ t[Len(t)] = ch THEN RStrip(SubSeq(t, 1, Len(t) - 1), ch) ELSE t

Strip(t) == RStrip(LStrip(t, " "), " ")

\* Python slice t[a:] and t[a:b] with 0-based a, b
SliceFrom(t, a) == SubSeq(t, a + 1, Len(t))
Slice(t, a, b) == SubSeq(t, a + 1, IF b < Len(t) THEN b ELSE Len(t))

Upper(s) == CASE s = "Queens" -> "QUEENS"
              [] OTHER -> s

Lower(ch) == CASE ch = "A" -> "a"
               [] OTHER -> ch

Digits == {"0", "1", "2", "3", "4", "5", "6", "7", "8", "9"}

Remove(t, ch) == SelectSeq(t, LAMBDA x : x # ch)

\* the longest prefix of t made of the characters in set
RECURSIVE LeadingRun(_, _)
LeadingRun(t, set) ==
    IF t # <<>> /\ Head(t) \in set
    THEN <<Head(t)>> \o LeadingRun(Tail(t), set)
    ELSE <<>>

-----------------------------------------------------------------------------
(* House numbers *)

\* str(house_num).replace('-', '').replace(' ', '').lower(), None when falsy
normalize_house_number(house_num) ==
    IF ~TruthyT(house_num)
    THEN NoneT
    ELSE LET bare == Remove(Remove(house_num, "-"), " ")
         IN  [i \in DOMAIN bare |-> Lower(bare[i])]

\* re.match(r'^([\d-]+)', address.strip())
extract_house_number(addr) ==
    LET token == LeadingRun(Strip(addr), Digits \cup {"-"})
    IN  IF token # <<>> THEN token ELSE NoneT

\* if input_normalized and api_normalized and input_normalized == api_normalized
HouseNumbersMatch(input_normalized, api_normalized) ==
    /\ TruthyT(input_normalized)
    /\ TruthyT(api_normalized)
    /\ input_normalized = api_normalized

-----------------------------------------------------------------------------
(* The identifier bundle built from a geocoder candidate *)

BundleBlock(bbl) ==
    IF TruthyT(bbl) /\ Len(bbl) >= 10 THEN LStrip(Slice(bbl, 1, 6), "0") ELSE NoneT

BundleLot(bbl) ==
    IF TruthyT(bbl) /\ Len(bbl) >= 10 THEN LStrip(SliceFrom(bbl, 6), "0") ELSE NoneT

Bundle(f) ==
    [bin     |-> f.bin,
     bbl     |-> f.bbl,
     borough |-> f.borough,
     block   |-> BundleBlock(f.bbl),
     lot     |-> BundleLot(f.bbl),
     address |-> Strip(f.housenumber \o <<" ">> \o f.street)]

NoIds == [none |-> TRUE]

-----------------------------------------------------------------------------
(* Registry answers *)

RecBins == {"B1", "B2", None}     \* a record's bin field; None when it has none

Rec(k, b) == [id |-> k, bin |-> b]

\* every answer of at most n rows; the k-th row carries id k
RecordLists(n, bins) ==
    UNION {{[k \in 1..m |-> Rec(k, f[k])] : f \in [1..m -> bins]} : m \in 0..n}

Answers(lists) ==
    {[ok |-> FALSE, rows |-> <<>>]} \cup {[ok |-> TRUE, rows |-> l] : l \in lists}

AnswersOf(dataset) ==
    CASE dataset \in {"hpd_violations", "dob_violations"} ->
             Answers(RecordLists(MaxRecs, RecBins))
      [] dataset \in {"elevator_inspections", "boiler_inspections"} ->
             Answers(RecordLists(MaxDevices, {"B1"}))
      [] OTHER -> Answers(RecordLists(MaxPermits, RecBins))

\* NYCOpenDataClient.get_data: the rows, or [] when the request raised
get_data(answer) == IF answer.ok /\ answer.rows # <<>> THEN answer.rows ELSE <<>>

-----------------------------------------------------------------------------
(* get_comprehensive_compliance_data *)

Categories ==
    {"hpd_violations", "dob_violations", "elevator_data", "boiler_data",
     "electrical_permits"}

DatasetOf(category) ==
    CASE category = "elevator_data" -> "elevator_inspections"
      [] category = "boiler_data" -> "boiler_inspections"
      [] OTHER -> category

EmptyResult == [c \in Categories |-> <<>>]

NotFound == [c \in Categories |-> "none"]

\* mutant: the comparison inverted, so the records of other buildings are kept
BinFilter_Inverted(rows, bin_num) == SelectSeq(rows, LAMBDA v : v.bin # bin_num)

\* data = [v for v in data if v.get('bin') == bin_num]
BinFilter(rows, bin_num) == SelectSeq(rows, LAMBDA v : v.bin = bin_num)

\* mutant: the parcel id tried before the building id
HpdStrategyList_BblFirst(ids) ==
    (IF TruthyT(ids.bbl) THEN <<"BBL">> ELSE <<>>)
        \o (IF Truthy(ids.bin) THEN <<"BIN">> ELSE <<>>)

HpdStrategyList(ids) ==
    (IF Truthy(ids.bin) THEN <<"BIN">> ELSE <<>>)
        \o (IF TruthyT(ids.bbl) THEN <<"BBL">> ELSE <<>>)

\* mutant: the block and lot tried after the building and parcel ids
DobStrategyList_BlockLot(ids) ==
    (IF Truthy(ids.bin) THEN <<"BIN">> ELSE <<>>)
        \o (IF TruthyT(ids.bbl) THEN <<"BBL">> ELSE <<>>)
        \o (IF TruthyT(ids.block) THEN <<"Block/Lot">> ELSE <<>>)

DobStrategyList(ids) ==
    (IF Truthy(ids.bin) THEN <<"BIN">> ELSE <<>>)
        \o (IF TruthyT(ids.bbl) THEN <<"BBL">> ELSE <<>>)

\* identifiers.get('borough', '').upper() raises when borough is None
ElectricalRaises(ids) == TruthyT(ids.block) /\ ids.borough = None

ElectricalStrategyList(ids) ==
    (IF Truthy(ids.bin) THEN <<"BIN">> ELSE <<>>)
        \o (IF TruthyT(ids.block) /\ Truthy(Upper(ids.borough))
            THEN <<"Borough/Block">> ELSE <<>>)

\* for strategy_name, where_clause in strategies: enter the loop or fall through
EnterLoop(list, query_pc, exit_pc) ==
    /\ strategies' = list
    /\ idx' = 1
    /\ failed' = {}
    /\ rejected' = {}
    /\ pc' = IF list # <<>> THEN query_pc ELSE exit_pc

\* While the datasets' answers are held fixed, a query that was answered
\* before gets the same answer again; any other query gets whatever the
\* dataset answers, and that answer is held from then on.
Upstream(dataset, label) ==
    IF <<running, dataset, label>> \in DOMAIN upstream.answers
    THEN {upstream.answers[<<running, dataset, label>>]}
    ELSE AnswersOf(dataset)

Held(dataset, label, answer) ==
    IF upstream.fixed
    THEN [upstream EXCEPT !.answers = (<<running, dataset, label>> :> answer) @@ @]
    ELSE upstream

\* mutant: a transport error is not caught and leaves the fetcher
IssueQuery_Propagates(dataset, label, answer, earlier, next_pc) ==
    /\ queries' = Append(queries, <<dataset, label>>)
    /\ upstream' = Held(dataset, label, answer)
    /\ data' = get_data(answer)
    /\ failed' = IF answer.ok THEN earlier ELSE earlier \cup {label}
    /\ pc' = IF answer.ok THEN next_pc ELSE "raised"

\* data = client.get_data(dataset, where=where_clause, limit=500)
IssueQuery(dataset, label, answer, earlier, next_pc) ==
    /\ queries' = Append(queries, <<dataset, label>>)
    /\ upstream' = Held(dataset, label, answer)
    /\ data' = get_data(answer)
    /\ failed' = IF answer.ok THEN earlier ELSE earlier \cup {label}
    /\ pc' = next_pc

\* continue (or the end of the loop body): on to the next strategy
NextStrategy(query_pc, exit_pc) ==
    /\ idx' = idx + 1
    /\ pc' = IF idx < Len(strategies) THEN query_pc ELSE exit_pc

\* result[category] = data; print("Found ... using strategy_name"); break
Accept(category, rows, exit_pc) ==
    /\ result' = [result EXCEPT ![category] = rows]
    /\ found_using' = [found_using EXCEPT ![category] = strategies[idx]]
    /\ data' = rows
    /\ pc' = exit_pc
    /\ UNCHANGED <<idx, rejected>>

\* mutant: a BIN mismatch ends the loop (break) instead of moving on (continue)
ValidatedBody_BreakOnMismatch(category, query_pc, exit_pc) ==
    IF data # <<>>
    THEN IF Truthy(identifiers.bin)
         THEN LET kept == BinFilter(data, identifiers.bin)
              IN  IF kept = <<>>
                  THEN /\ data' = kept
                       /\ rejected' = rejected \cup {strategies[idx]}
                       /\ idx' = idx + 1
                       /\ pc' = exit_pc
                       /\ UNCHANGED <<result, found_using>>
                  ELSE Accept(category, kept, exit_pc)
         ELSE Accept(category, data, exit_pc)
    ELSE /\ NextStrategy(query_pc, exit_pc)
         /\ UNCHANGED <<data, result, found_using, rejected>>

\* the loop body after get_data, with the BIN cross-check of HPD and DOB
ValidatedBody(category, query_pc, exit_pc) ==
    IF data # <<>>
    THEN IF Truthy(identifiers.bin)
         THEN LET kept == BinFilter(data, identifiers.bin)
              IN  IF kept = <<>>
                  THEN /\ data' = kept
                       /\ rejected' = rejected \cup {strategies[idx]}
                       /\ NextStrategy(query_pc, exit_pc)
                       /\ UNCHANGED <<result, found_using>>
                  ELSE Accept(category, kept, exit_pc)
         ELSE Accept(category, data, exit_pc)
    ELSE /\ NextStrategy(query_pc, exit_pc)
         /\ UNCHANGED <<data, result, found_using, rejected>>

\* the loop body after get_data of the electrical permits loop (no cross-check)
UnvalidatedBody(category, query_pc, exit_pc) ==
    IF data # <<>>
    THEN Accept(category, data, exit_pc)
    ELSE /\ NextStrategy(query_pc, exit_pc)
         /\ UNCHANGED <<data, result, found_using, rejected>>

Resolver == <<address, features, scan, best_match, geocoder_calls>>

Philly == <<registry, down, request, fetched, property_data, compliance_data, first,
           first_response>>

Service == <<scores, response>>

\* what outlives a request or lies outside its handler
Ambient == <<clock, running, parked, alone>>

\* inputs and outputs of the functions exercised on their own
Units == <<violationtype, risk_type, mechanical_permits, permit_idx,
           device_info, boiler_devices, boiler_report, permit_data>>

Fetcher == <<strategies, idx, data, result, queries, found_using, failed, rejected>>

\* mutant: only a missing bundle is a resolution failure
CheckIdentifiers_NoBinTest ==
    /\ pc = "resolved"
    /\ pc' = IF identifiers = NoIds THEN "not_found" ELSE "fetch_start"
    /\ UNCHANGED <<Units, Ambient, upstream, Resolver, Philly, Service, identifiers, strategies, idx, data, result, queries,
                   found_using, failed, rejected>>

\* app.py: if not identifiers or not identifiers.get('bin'): 404
CheckIdentifiers ==
    /\ pc = "resolved"
    /\ pc' = IF identifiers = NoIds \/ ~Truthy(identifiers.bin)
             THEN "not_found" ELSE "fetch_start"
    /\ UNCHANGED <<Units, Ambient, upstream, Resolver, Philly, Service, identifiers, strategies, idx, data, result, queries,
                   found_using, failed, rejected>>

FetchStart ==
    /\ pc = "fetch_start"
    /\ result' = EmptyResult
    /\ pc' = IF ~Truthy(identifiers.bin) THEN "fetched" ELSE "hpd_strategies"
    /\ UNCHANGED <<Units, Ambient, upstream, Resolver, Philly, Service, identifiers, strategies, idx, data, queries,
                   found_using, failed, rejected>>

HpdStrategies ==
    /\ pc = "hpd_strategies"
    /\ EnterLoop(HpdStrategyList(identifiers), "hpd_query", "dob_strategies")
    /\ UNCHANGED <<Units, Ambient, upstream, Resolver, Philly, Service, identifiers, data, result, queries, found_using>>

HpdQuery ==
    /\ pc = "hpd_query"
    /\ \E answer \in Upstream("hpd_violations", strategies[idx]) :
           IssueQuery("hpd_violations", strategies[idx], answer, failed,
                      "hpd_validate")
    /\ UNCHANGED <<Units, Ambient, Resolver, Philly, Service, identifiers, strategies, idx, result, found_using,
                   rejected>>

HpdValidate ==
    /\ pc = "hpd_validate"
    /\ ValidatedBody("hpd_violations", "hpd_query", "dob_strategies")
    /\ UNCHANGED <<Units, Ambient, upstream, Resolver, Philly, Service, identifiers, strategies, queries, failed>>

DobStrategies ==
    /\ pc = "dob_strategies"
    /\ EnterLoop(DobStrategyList(identifiers), "dob_query", "elevator_query")
    /\ UNCHANGED <<Units, Ambient, upstream, Resolver, Philly, Service, identifiers, data, result, queries, found_using>>

DobQuery ==
    /\ pc = "dob_query"
    /\ \E answer \in Upstream("dob_violations", strategies[idx]) :
           IssueQuery("dob_violations", strategies[idx], answer, failed,
                      "dob_validate")
    /\ UNCHANGED <<Units, Ambient, Resolver, Philly, Service, identifiers, strategies, idx, result, found_using,
                   rejected>>

DobValidate ==
    /\ pc = "dob_validate"
    /\ ValidatedBody("dob_violations", "dob_query", "elevator_query")
    /\ UNCHANGED <<Units, Ambient, upstream, Resolver, Philly, Service, identifiers, strategies, queries, failed>>

\* if bin_num: data = client.get_data('elevator_inspections', "bin = ...")
ElevatorQuery ==
    /\ pc = "elevator_query"
    /\ IF Truthy(identifiers.bin)
       THEN /\ strategies' = <<"BIN">>
            /\ idx' = 1
            /\ rejected' = {}
            /\ \E answer \in Upstream("elevator_inspections", "BIN") :
                   IssueQuery("elevator_inspections", "BIN", answer, {},
                              "elevator_store")
       ELSE /\ pc' = "boiler_query"
            /\ UNCHANGED <<strategies, idx, rejected, queries, data, failed, upstream>>
    /\ UNCHANGED <<Units, Ambient, Resolver, Philly, Service, identifiers, result, found_using>>

ElevatorStore ==
    /\ pc = "elevator_store"
    /\ IF data # <<>>
       THEN Accept("elevator_data", data, "boiler_query")
       ELSE /\ pc' = "boiler_query"
            /\ UNCHANGED <<idx, data, result, found_using, rejected>>
    /\ UNCHANGED <<Units, Ambient, upstream, Resolver, Philly, Service, identifiers, strategies, queries, failed>>

BoilerQuery ==
    /\ pc = "boiler_query"
    /\ IF Truthy(identifiers.bin)
       THEN /\ strategies' = <<"BIN">>
            /\ idx' = 1
            /\ rejected' = {}
            /\ \E answer \in Upstream("boiler_inspections", "BIN") :
                   IssueQuery("boiler_inspections", "BIN", answer, {},
                              "boiler_store")
       ELSE /\ pc' = "electrical_strategies"
            /\ UNCHANGED <<strategies, idx, rejected, queries, data, failed, upstream>>
    /\ UNCHANGED <<Units, Ambient, Resolver, Philly, Service, identifiers, result, found_using>>

BoilerStore ==
    /\ pc = "boiler_store"
    /\ IF data # <<>>
       THEN Accept("boiler_data", data, "electrical_strategies")
       ELSE /\ pc' = "electrical_strategies"
            /\ UNCHANGED <<idx, data, result, found_using, rejected>>
    /\ UNCHANGED <<Units, Ambient, upstream, Resolver, Philly, Service, identifiers, strategies, queries, failed>>

ElectricalStrategies ==
    /\ pc = "electrical_strategies"
    /\ IF ElectricalRaises(identifiers)
       THEN /\ pc' = "raised"
            /\ strategies' = <<>>
            /\ idx' = 1
            /\ failed' = {}
            /\ rejected' = {}
       ELSE EnterLoop(ElectricalStrategyList(identifiers), "electrical_query", "fetched")
    /\ UNCHANGED <<Units, Ambient, upstream, Resolver, Philly, Service, identifiers, data, result, queries, found_using>>

ElectricalQuery ==
    /\ pc = "electrical_query"
    /\ \E answer \in Upstream("electrical_permits", strategies[idx]) :
           IssueQuery("electrical_permits", strategies[idx], answer, failed,
                      "electrical_store")
    /\ UNCHANGED <<Units, Ambient, Resolver, Philly, Service, identifiers, strategies, idx, result, found_using,
                   rejected>>

ElectricalStore ==
    /\ pc = "electrical_store"
    /\ UnvalidatedBody("electrical_permits", "electrical_query", "fetched")
    /\ UNCHANGED <<Units, Ambient, upstream, Resolver, Philly, Service, identifiers, strategies, queries, failed>>

-----------------------------------------------------------------------------
(* Philadelphia: PhillyEnhancedDataClient (src/philly.py) *)

PhillyCategories ==
    {"permits", "violations", "certifications", "certification_summary",
     "investigations"}

\* str.upper(), character by character
UpperCh(ch) == CASE ch = "a" -> "A"
                 [] ch = "b" -> "B"
                 [] ch = "c" -> "C"
                 [] ch = "d" -> "D"
                 [] ch = "e" -> "E"
                 [] ch = "f" -> "F"
                 [] ch = "g" -> "G"
                 [] ch = "h" -> "H"
                 [] ch = "i" -> "I"
                 [] ch = "j" -> "J"
                 [] ch = "k" -> "K"
                 [] ch = "l" -> "L"
                 [] ch = "m" -> "M"
                 [] ch = "n" -> "N"
                 [] ch = "o" -> "O"
                 [] ch = "p" -> "P"
                 [] ch = "q" -> "Q"
                 [] ch = "r" -> "R"
                 [] ch = "s" -> "S"
                 [] ch = "t" -> "T"
                 [] ch = "u" -> "U"
                 [] ch = "v" -> "V"
                 [] ch = "w" -> "W"
                 [] ch = "x" -> "X"
                 [] ch = "y" -> "Y"
                 [] ch = "z" -> "Z"
                 [] OTHER -> ch

UpperText(t) == [i \in DOMAIN t |-> UpperCh(t[i])]

\* term in text
Contains(text, term) ==
    \E i \in 1..(Len(text) - Len(term) + 1) :
        SubSeq(text, i, i + Len(term) - 1) = term

FireTerms ==
    {<<"F", "I", "R", "E">>,
     <<"S", "M", "O", "K", "E">>,
     <<"A", "L", "A", "R", "M">>,
     <<"S", "P", "R", "I", "N", "K", "L", "E", "R">>,
     <<"E", "X", "T", "I", "N", "G", "U", "I", "S", "H", "E", "R">>,
     <<"E", "G", "R", "E", "S", "S">>,
     <<"E", "X", "I", "T">>}

StructuralTerms ==
    {<<"S", "T", "R", "U", "C", "T", "U", "R", "A", "L">>,
     <<"F", "A", "C", "A", "D", "E">>,
     <<"F", "O", "U", "N", "D", "A", "T", "I", "O", "N">>,
     <<"B", "E", "A", "M">>,
     <<"W", "A", "L", "L">>,
     <<"R", "O", "O", "F">>}

ElectricalTerms ==
    {<<"E", "L", "E", "C", "T", "R", "I", "C", "A", "L">>,
     <<"W", "I", "R", "I", "N", "G">>,
     <<"O", "U", "T", "L", "E", "T">>,
     <<"C", "I", "R", "C", "U", "I", "T">>}

MechanicalTerms ==
    {<<"M", "E", "C", "H", "A", "N", "I", "C", "A", "L">>,
     <<"B", "O", "I", "L", "E", "R">>,
     <<"H", "V", "A", "C">>,
     <<"H", "E", "A", "T", "I", "N", "G">>,
     <<"V", "E", "N", "T", "I", "L", "A", "T", "I", "O", "N">>}

PlumbingTerms ==
    {<<"P", "L", "U", "M", "B", "I", "N", "G">>,
     <<"W", "A", "T", "E", "R">>,
     <<"P", "I", "P", "E">>,
     <<"S", "E", "W", "E", "R">>,
     <<"D", "R", "A", "I", "N">>}

HousingTerms ==
    {<<"H", "O", "U", "S", "I", "N", "G">>,
     <<"O", "C", "C", "U", "P", "A", "N", "C", "Y">>,
     <<"M", "A", "I", "N", "T", "E", "N", "A", "N", "C", "E">>,
     <<"P", "R", "O", "P", "E", "R", "T", "Y">>}

ZoningTerms ==
    {<<"Z", "O", "N", "I", "N", "G">>,
     <<"U", "S", "E">>,
     <<"P", "E", "R", "M", "I", "T">>}

\* violation_risk_weights.get(violation_type, 5)
violation_risk_weights(violation_type) ==
    CASE violation_type = "FIRE" -> 25
      [] violation_type = "STRUCTURAL" -> 20
      [] violation_type = "ELECTRICAL" -> 15
      [] violation_type = "MECHANICAL" -> 12
      [] violation_type = "PLUMBING" -> 8
      [] violation_type = "HOUSING" -> 5
      [] violation_type = "ZONING" -> 3
      [] OTHER -> 5

AnyTerm(description_upper, terms) ==
    \E term \in terms : Contains(description_upper, term)

\* mutant: the structural terms are looked for before the fire terms
_categorize_violation_risk_StructuralFirst(violation_description) ==
    IF ~TruthyT(violation_description)
    THEN "OTHER"
    ELSE LET description_upper == UpperText(violation_description)
         IN  CASE AnyTerm(description_upper, StructuralTerms) -> "STRUCTURAL"
               [] AnyTerm(description_upper, FireTerms) -> "FIRE"
               [] AnyTerm(description_upper, ElectricalTerms) -> "ELECTRICAL"
               [] AnyTerm(description_upper, MechanicalTerms) -> "MECHANICAL"
               [] AnyTerm(description_upper, PlumbingTerms) -> "PLUMBING"
               [] AnyTerm(description_upper, HousingTerms) -> "HOUSING"
               [] AnyTerm(description_upper, ZoningTerms) -> "ZONING"
               [] OTHER -> "OTHER"

_categorize_violation_risk(violation_description) ==
    IF ~TruthyT(violation_description)
    THEN "OTHER"
    ELSE LET description_upper == UpperText(violation_description)
         IN  CASE AnyTerm(description_upper, FireTerms) -> "FIRE"
               [] AnyTerm(description_upper, StructuralTerms) -> "STRUCTURAL"
               [] AnyTerm(description_upper, ElectricalTerms) -> "ELECTRICAL"
               [] AnyTerm(description_upper, MechanicalTerms) -> "MECHANICAL"
               [] AnyTerm(description_upper, PlumbingTerms) -> "PLUMBING"
               [] AnyTerm(description_upper, HousingTerms) -> "HOUSING"
               [] AnyTerm(description_upper, ZoningTerms) -> "ZONING"
               [] OTHER -> "OTHER"

\* A date column holds None or a date; a date is named by where it lay
\* when the first request arrived. DaysAgo is its distance from
\* datetime.now(), positive in the past.
DaysAgo(date) ==
    clock + CASE date = "last_week" -> 7
              [] date = "three_years_ago" -> 1095
              [] date = "next_year" -> 0 - 365

\* permit_date > datetime.now() - timedelta(days=365), False without a date
_is_recent_permit(permit) ==
    /\ Truthy(permit.permitissuedate)
    /\ DaysAgo(permit.permitissuedate) < 365

\* exp_date < datetime.now(), False without a date
_is_expired_certification(certification) ==
    /\ Truthy(certification.expiration_date)
    /\ DaysAgo(certification.expiration_date) > 0

Min(a, b) == IF a < b THEN a ELSE b
Max(a, b) == IF a > b THEN a ELSE b

OpenStatuses == {<<"O", "P", "E", "N">>,
                 <<"A", "C", "T", "I", "V", "E">>,
                 <<"I", "N", " ", "V", "I", "O", "L", "A", "T", "I", "O", "N">>}

\* v.get('status', '').upper() of a violation whose status column is null
ScoreRaises(violations) ==
    \E i \in DOMAIN violations : violations[i].status = NoneT

RECURSIVE TotalRiskWeight(_)
TotalRiskWeight(open_violations) ==
    IF open_violations = <<>>
    THEN 0
    ELSE violation_risk_weights(
             _categorize_violation_risk(Head(open_violations).violationtype))
         + TotalRiskWeight(Tail(open_violations))

\* mutant: the score is not clamped
_calculate_enhanced_compliance_score_Unclamped(violations, permits, certifications) ==
    LET open_violations ==
            SelectSeq(violations, LAMBDA v : UpperText(v.status) \in OpenStatuses)
        recent_permits == SelectSeq(permits, _is_recent_permit)
        expired_certs == SelectSeq(certifications, _is_expired_certification)
        active_certs ==
            SelectSeq(certifications, LAMBDA c : ~_is_expired_certification(c))
    IN  100 - TotalRiskWeight(open_violations)
            + Min(Len(recent_permits) * 3, 15)
            - Len(expired_certs) * 12
            + Min(Len(active_certs) * 2, 10)

\* mutant: the bonuses are not capped
_calculate_enhanced_compliance_score_UncappedBonus(violations, permits, certifications) ==
    LET open_violations ==
            SelectSeq(violations, LAMBDA v : UpperText(v.status) \in OpenStatuses)
        recent_permits == SelectSeq(permits, _is_recent_permit)
        expired_certs == SelectSeq(certifications, _is_expired_certification)
        active_certs ==
            SelectSeq(certifications, LAMBDA c : ~_is_expired_certification(c))
        base_score ==
            100 - TotalRiskWeight(open_violations)
                + Len(recent_permits) * 3
                - Len(expired_certs) * 12
                + Len(active_certs) * 2
    IN  Max(0, Min(100, base_score))

\* defined when ~ScoreRaises(violations)
_calculate_enhanced_compliance_score(violations, permits, certifications) ==
    LET open_violations ==
            SelectSeq(violations, LAMBDA v : UpperText(v.status) \in OpenStatuses)
        recent_permits == SelectSeq(permits, _is_recent_permit)
        expired_certs == SelectSeq(certifications, _is_expired_certification)
        active_certs ==
            SelectSeq(certifications, LAMBDA c : ~_is_expired_certification(c))
        base_score ==
            100 - TotalRiskWeight(open_violations)
                + Min(Len(recent_permits) * 3, 15)
                - Len(expired_certs) * 12
                + Min(Len(active_certs) * 2, 10)
    IN  Max(0, Min(100, base_score))

(* What the registries hold *)

MaxRows == 1        \* longest answer of a Philadelphia registry

\* violationstatus and violationcodetitle are nullable columns
ViolationStatuses == {<<"O", "p", "e", "n">>, <<"C", "l", "o", "s", "e", "d">>, NoneT}

ViolationTypes == {<<"F", "i", "r", "e", " ", "e", "x", "i", "t">>, NoneT}

ViolationRows == [status : ViolationStatuses, violationtype : ViolationTypes]

PermitRows == [permitissuedate : {"last_week", "three_years_ago", None}]

\* expiration_date and status are nullable attributes
CertificationStatuses == {<<"A", "c", "t", "i", "v", "e">>, NoneT}

CertificationRows ==
    [expiration_date : {"three_years_ago", "next_year", None},
     status : CertificationStatuses]

SummaryRows == {[structure_id |-> "S1"]}

InvestigationRows == {[casenumber |-> "K1"]}

RowsOf(category) ==
    CASE category = "permits" -> PermitRows
      [] category = "violations" -> ViolationRows
      [] category = "certifications" -> CertificationRows
      [] category = "certification_summary" -> SummaryRows
      [] category = "investigations" -> InvestigationRows

RowLists(rows) == UNION {[1..n -> rows] : n \in 0..MaxRows}

Failure == [ok |-> FALSE, rows |-> <<>>]

PhillyAnswers(category) ==
    {Failure} \cup {[ok |-> TRUE, rows |-> l] : l \in RowLists(RowsOf(category))}

\* the registry of `down` is out of reach while the first request is served
Answer(category) ==
    IF request = 1 /\ category = down THEN Failure ELSE registry[category]

\* _make_carto_query / _make_arcgis_query: the rows, [] on any exception
get_li(category) ==
    IF Answer(category).ok THEN Answer(category).rows ELSE <<>>

NoLists == [category \in PhillyCategories |-> <<>>]

NoData == [pending |-> TRUE]

ServiceIdle ==
    /\ scores = NoData
    /\ response = NoData
    /\ geocoder_calls = 0

\* the datasets answer live: nothing is held fixed
Live == [fixed |-> FALSE, answers |-> <<>>]

\* one handler, nobody waiting
SchedulerIdle ==
    /\ running = 1
    /\ parked = NoData
    /\ alone = NoData

AmbientIdle ==
    /\ clock = 0
    /\ upstream = Live
    /\ SchedulerIdle

UnitsIdle ==
    /\ violationtype = NoneT
    /\ risk_type = None
    /\ mechanical_permits = <<>>
    /\ permit_idx = 0
    /\ device_info = NoData
    /\ boiler_devices = <<>>
    /\ boiler_report = NoData
    /\ permit_data = NoData

PhillyIdle ==
    /\ registry = [category \in PhillyCategories |-> Failure]
    /\ down = "none"
    /\ request = 0
    /\ fetched = NoLists
    /\ property_data = NoData
    /\ compliance_data = NoData
    /\ first = NoData
    /\ first_response = NoData

Nyc == <<address, features, scan, best_match, identifiers, strategies, idx, data,
         result, queries, found_using, failed, rejected, geocoder_calls>>

\* the five get_li_* calls of get_comprehensive_property_data
PhillyFetch ==
    /\ pc = "philly_fetch"
    /\ fetched' = [category \in PhillyCategories |-> get_li(category)]
    /\ pc' = "philly_score"
    /\ UNCHANGED <<Units, Ambient, upstream, Nyc, Service, registry, down, request, property_data, compliance_data,
                   first, first_response>>

\* v.get('status') and v.get('status').upper() in ['OPEN', 'ACTIVE']
IsOpen(v) ==
    /\ TruthyT(v.status)
    /\ UpperText(v.status) \in {<<"O", "P", "E", "N">>, <<"A", "C", "T", "I", "V", "E">>}

\* the dict returned by the try branch
PropertyData(permits, violations, certifications, summary, investigations) ==
    LET open_violations == SelectSeq(violations, IsOpen)
        recent_permits == SelectSeq(permits, _is_recent_permit)
    IN  [permits |-> [total |-> Len(permits), recent |-> Len(recent_permits),
                      records |-> permits],
         violations |-> [total |-> Len(violations), open |-> Len(open_violations),
                         records |-> violations],
         certifications |-> [total |-> Len(certifications),
                             records |-> certifications],
         certification_summary |-> [total |-> Len(summary), records |-> summary],
         investigations |-> [total |-> Len(investigations),
                             records |-> investigations],
         compliance_summary |->
             [compliance_score |->
                  _calculate_enhanced_compliance_score(violations, permits,
                                                       certifications),
              total_violations |-> Len(violations),
              open_violations |-> Len(open_violations),
              recent_permits |-> Len(recent_permits)]]

\* the dict returned by the except branch
ErrorData == [error |-> "AttributeError"]

\* the rest of get_comprehensive_property_data: the metrics, the score and
\* the returned dict, or the dict of the except branch
PhillyScore ==
    /\ pc = "philly_score"
    /\ property_data' =
           IF ScoreRaises(fetched.violations)
           THEN ErrorData
           ELSE PropertyData(fetched.permits, fetched.violations,
                             fetched.certifications,
                             fetched.certification_summary,
                             fetched.investigations)
    /\ pc' = "philly_extract"
    /\ UNCHANGED <<Units, Ambient, upstream, Nyc, Service, registry, down, request, fetched, compliance_data, first, first_response>>

\* property_data.get(key, {}).get('records', [])
Records(data_dict, key) ==
    IF key \in DOMAIN data_dict THEN data_dict[key].records ELSE <<>>

\* get_philly_compliance_data (src/python/generate_philly_report.py); the
\* empty dict is the empty function <<>>
get_philly_compliance_data(data_dict) ==
    [li_permits |-> Records(data_dict, "permits"),
     li_violations |-> Records(data_dict, "violations"),
     li_certifications |-> Records(data_dict, "certifications"),
     certification_summary |-> Records(data_dict, "certification_summary"),
     li_investigations |-> Records(data_dict, "investigations"),
     li_appeals |-> Records(data_dict, "appeals"),
     compliance_summary |->
         IF "compliance_summary" \in DOMAIN data_dict
         THEN data_dict.compliance_summary
         ELSE <<>>]

PhillyExtract ==
    /\ pc = "philly_extract"
    /\ compliance_data' = get_philly_compliance_data(property_data)
    /\ pc' = "philly_data"
    /\ UNCHANGED <<Units, Ambient, upstream, Nyc, Service, registry, down, request, fetched, property_data, first, first_response>>

\* the service takes a second request for the same address
NextRequest ==
    /\ pc = "responded"
    /\ request = 1
    /\ first' = compliance_data
    /\ first_response' = response
    /\ request' = 2
    /\ fetched' = NoLists
    /\ property_data' = NoData
    /\ compliance_data' = NoData
    /\ scores' = NoData
    /\ response' = NoData
    /\ pc' = "philly_fetch"
    /\ UNCHANGED <<Units, Ambient, upstream, Nyc, registry, down>>

-----------------------------------------------------------------------------
(* Scores and responses (src/python/app.py, generate_report.py,            *)
(* generate_philly_report.py)                                               *)

DisplayCap == 50

\* mutant: the last records are shown instead of the first
Shown_Last(records) ==
    SubSeq(records, Max(1, Len(records) - DisplayCap + 1), Len(records))

\* records[:50]
Shown(records) == Slice(records, 0, DisplayCap)

\* mutant: the overall score only counts the HPD half
calculate_scores_HpdHalfOnly(d) ==
    LET hpd_active == Len(d["hpd_violations"])
        dob_active == Len(d["dob_violations"])
        hpd_score == Max(0, 100 - hpd_active * 10)
        dob_score == Max(0, 100 - dob_active * 15)
    IN  [hpd_score |-> 10 * hpd_score,
         dob_score |-> 10 * dob_score,
         overall_score |-> 5 * hpd_score,
         hpd_violations_active |-> hpd_active,
         dob_violations_active |-> dob_active,
         elevator_devices |-> Len(d["elevator_data"]),
         boiler_devices |-> Len(d["boiler_data"]),
         electrical_permits |-> Len(d["electrical_permits"])]

\* calculate_scores; hpd_score, dob_score and overall_score are held in
\* tenths, the precision round(x, 1) keeps: overall_score is
\* hpd_score * 0.5 + dob_score * 0.5
calculate_scores(d) ==
    LET hpd_active == Len(d["hpd_violations"])
        dob_active == Len(d["dob_violations"])
        hpd_score == Max(0, 100 - hpd_active * 10)
        dob_score == Max(0, 100 - dob_active * 15)
    IN  [hpd_score |-> 10 * hpd_score,
         dob_score |-> 10 * dob_score,
         overall_score |-> 5 * hpd_score + 5 * dob_score,
         hpd_violations_active |-> hpd_active,
         dob_violations_active |-> dob_active,
         elevator_devices |-> Len(d["elevator_data"]),
         boiler_devices |-> Len(d["boiler_data"]),
         electrical_permits |-> Len(d["electrical_permits"])]

\* mutant: the scores are computed from the lists as they are displayed
CalculateScores_FromShown ==
    /\ pc = "fetched"
    /\ scores' = calculate_scores([c \in Categories |-> Shown(result[c])])
    /\ pc' = "scored"
    /\ UNCHANGED <<Units, Ambient, upstream, Resolver, Philly, Fetcher, identifiers, response>>

\* app.py: scores = calculate_scores(compliance_data)
CalculateScores ==
    /\ pc = "fetched"
    /\ scores' = calculate_scores(result)
    /\ pc' = "scored"
    /\ UNCHANGED <<Units, Ambient, upstream, Resolver, Philly, Fetcher, identifiers, response>>

\* mutant: the report says how many requests were served for the address
BuildReport_CountsRequests ==
    /\ pc = "scored"
    /\ response' =
           [status |-> 200,
            body |-> [success |-> TRUE,
                      city |-> "NYC",
                      property |-> identifiers,
                      scores |-> scores,
                      data |-> [c \in Categories |-> Shown(result[c])],
                      served |-> IF first_response = NoData THEN 1 ELSE 2,
                      generated_at |-> "now"]]
    /\ pc' = "responded"
    /\ UNCHANGED <<Units, Ambient, upstream, Resolver, Philly, Fetcher, identifiers, scores>>

\* app.py: report = {...}; return jsonify(report)
BuildReport ==
    /\ pc = "scored"
    /\ response' =
           [status |-> 200,
            body |-> [success |-> TRUE,
                      city |-> "NYC",
                      property |-> identifiers,
                      scores |-> scores,
                      data |-> [c \in Categories |-> Shown(result[c])],
                      generated_at |-> "now"]]
    /\ pc' = "responded"
    /\ UNCHANGED <<Units, Ambient, upstream, Resolver, Philly, Fetcher, identifiers, scores>>

\* app.py: return jsonify({'error': 'Property not found or BIN not available'}), 404
NotFoundResponse ==
    /\ pc = "not_found"
    /\ response' =
           [status |-> 404,
            body |-> [error |-> "Property not found or BIN not available"]]
    /\ pc' = "responded"
    /\ UNCHANGED <<Units, Ambient, upstream, Resolver, Philly, Fetcher, identifiers, scores>>

\* app.py: except Exception as e: return jsonify({'error': ..., 'message': ...}), 500
HandleException ==
    /\ pc = "raised"
    /\ response' =
           [status |-> 500,
            body |-> [error |-> "Failed to generate compliance report",
                      message |-> "str(e)"]]
    /\ pc' = "responded"
    /\ UNCHANGED <<Units, Ambient, upstream, Resolver, Philly, Fetcher, identifiers, scores>>

ActiveViolationStatuses == OpenStatuses

ActiveCertificationStatuses ==
    {<<"A", "C", "T", "I", "V", "E">>,
     <<"C", "U", "R", "R", "E", "N", "T">>,
     <<"V", "A", "L", "I", "D">>}

ExpiredCertificationStatuses ==
    {<<"E", "X", "P", "I", "R", "E", "D">>,
     <<"I", "N", "A", "C", "T", "I", "V", "E">>}

\* the comparisons of calculate_philly_scores that raise on a null column:
\* None.upper() for a status, None >= two_years_ago for a permit date
PhillyScoresRaise(cd) ==
    \/ \E i \in DOMAIN cd.li_violations : cd.li_violations[i].status = NoneT
    \/ \E i \in DOMAIN cd.li_permits : cd.li_permits[i].permitissuedate = None
    \/ \E i \in DOMAIN cd.li_certifications : cd.li_certifications[i].status = NoneT

\* compliance_data.get('compliance_summary', {}).get('compliance_score', 0)
PreCalculated(cd) ==
    IF "compliance_score" \in DOMAIN cd.compliance_summary
    THEN cd.compliance_summary.compliance_score
    ELSE 0

\* defined when ~PhillyScoresRaise(cd)
calculate_philly_scores(cd) ==
    LET active_violations ==
            Len(SelectSeq(cd.li_violations,
                          LAMBDA v : UpperText(v.status) \in ActiveViolationStatuses))
        \* p.get('permitissuedate', '') >= two_years_ago
        recent_permits ==
            Len(SelectSeq(cd.li_permits,
                          LAMBDA q : DaysAgo(q.permitissuedate) <= 730))
        active_certs ==
            Len(SelectSeq(cd.li_certifications,
                          LAMBDA c : UpperText(c.status) \in ActiveCertificationStatuses))
        expired_certs ==
            Len(SelectSeq(cd.li_certifications,
                          LAMBDA c : UpperText(c.status) \in ExpiredCertificationStatuses))
        basic == Max(0, Min(100, 100 - Min(active_violations * 10, 50)
                                     - Min(expired_certs * 5, 20)
                                     + Min(recent_permits * 2, 10)))
        overall_score == IF PreCalculated(cd) = 0 THEN basic ELSE PreCalculated(cd)
    IN  [overall_score |-> overall_score,
         li_permits_total |-> Len(cd.li_permits),
         li_permits_recent |-> recent_permits,
         li_violations_active |-> active_violations,
         li_violations_total |-> Len(cd.li_violations),
         li_certifications_active |-> active_certs,
         li_certifications_expired |-> expired_certs,
         li_investigations_total |-> Len(cd.li_investigations),
         li_appeals_total |-> Len(cd.li_appeals),
         compliance_score |-> overall_score]

\* generate_philly_report: scores = calculate_philly_scores(compliance_data);
\* an exception leaves generate_philly_report
PhillyScores ==
    /\ pc = "philly_data"
    /\ IF PhillyScoresRaise(compliance_data)
       THEN pc' = "raised" /\ UNCHANGED scores
       ELSE pc' = "philly_scored" /\ scores' = calculate_philly_scores(compliance_data)
    /\ UNCHANGED <<Units, Ambient, upstream, Nyc, Philly, response>>

\* generate_philly_report: report = {...}; app.py: return jsonify(report)
PhillyReport ==
    /\ pc = "philly_scored"
    /\ response' =
           [status |-> 200,
            body |-> [success |-> TRUE,
                      city |-> "Philadelphia",
                      property |-> [address |-> address, opa_account |-> None,
                                    parcel_id |-> None],
                      scores |-> scores,
                      data |-> [li_permits |-> Shown(compliance_data.li_permits),
                                li_violations |-> Shown(compliance_data.li_violations),
                                li_certifications |->
                                    Shown(compliance_data.li_certifications),
                                certification_summary |->
                                    Shown(compliance_data.certification_summary),
                                li_investigations |->
                                    Shown(compliance_data.li_investigations),
                                li_appeals |-> Shown(compliance_data.li_appeals)],
                      generated_at |-> "now",
                      data_period |-> "Last 3 years"]]
    /\ pc' = "responded"
    /\ UNCHANGED <<Units, Ambient, upstream, Nyc, Philly, scores>>

-----------------------------------------------------------------------------
(* Inputs of the resolver *)

\* "11 A", "1-1 A", " 11 A", "A 11", "- A", "1 1 A", "1A"
Addresses ==
    {<<"1", "1", " ", "A">>,
     <<"1", "-", "1", " ", "A">>,
     <<" ", "1", "1", " ", "A">>,
     <<"A", " ", "1", "1">>,
     <<"-", " ", "A">>,
     <<"1", " ", "1", " ", "A">>,
     <<"1", "A">>}

\* '', "11", "1-1", "1 1", "1", "1A", "1a", "-"
HouseNumbers ==
    {<<>>,
     <<"1", "1">>,
     <<"1", "-", "1">>,
     <<"1", " ", "1">>,
     <<"1">>,
     <<"1", "A">>,
     <<"1", "a">>,
     <<"-">>}

Candidates ==
    [housenumber : HouseNumbers, street : {<<"A">>}, bin : {None, "B1", "B2"},
     bbl : {NoneT}, borough : {"Queens"}]

-----------------------------------------------------------------------------
(* get_property_identifiers *)

NoAnswer == [pending |-> TRUE]

\* mutant: the exception of the geocoder call is not caught
Geocode_Propagates ==
    /\ pc = "geocode"
    /\ \E answer \in Answers(UNION {[1..n -> Candidates] : n \in 0..MaxCands}) :
           /\ features' = answer
           /\ geocoder_calls' = geocoder_calls + 1
           /\ IF ~answer.ok
              THEN /\ pc' = "raised"
                   /\ UNCHANGED <<identifiers, scan, best_match>>
              ELSE IF answer.rows = <<>>
              THEN /\ identifiers' = NoIds
                   /\ pc' = "resolved"
                   /\ UNCHANGED <<scan, best_match>>
              ELSE /\ scan' = 1
                   /\ best_match' = 0
                   /\ pc' = "scan"
                   /\ UNCHANGED identifiers
    /\ UNCHANGED <<Units, Ambient, upstream, address, Fetcher, Philly, Service>>

\* requests.get(.../search), raise_for_status, data.get('features')
Geocode ==
    /\ pc = "geocode"
    /\ \E answer \in Answers(UNION {[1..n -> Candidates] : n \in 0..MaxCands}) :
           /\ features' = answer
           /\ geocoder_calls' = geocoder_calls + 1
           /\ IF ~answer.ok \/ answer.rows = <<>>
              THEN /\ identifiers' = NoIds
                   /\ pc' = "resolved"
                   /\ UNCHANGED <<scan, best_match>>
              ELSE /\ scan' = 1
                   /\ best_match' = 0
                   /\ pc' = "scan"
                   /\ UNCHANGED identifiers
    /\ UNCHANGED <<Units, Ambient, upstream, address, Fetcher, Philly, Service>>

\* mutant: no break, so the last matching candidate wins
ScanCandidate_NoBreak ==
    /\ pc = "scan"
    /\ LET api_house_num == features.rows[scan].housenumber
           matches == HouseNumbersMatch(
                          normalize_house_number(extract_house_number(address)),
                          normalize_house_number(api_house_num))
       IN  /\ best_match' = IF matches THEN scan ELSE best_match
           /\ IF scan < Len(features.rows)
              THEN scan' = scan + 1 /\ pc' = pc
              ELSE pc' = "build" /\ scan' = scan
    /\ UNCHANGED <<Units, Ambient, upstream, address, features, identifiers, geocoder_calls, Fetcher, Philly,
                   Service>>

\* one iteration of: for idx, feature in enumerate(data['features'])
ScanCandidate ==
    /\ pc = "scan"
    /\ LET api_house_num == features.rows[scan].housenumber
           matches == HouseNumbersMatch(
                          normalize_house_number(extract_house_number(address)),
                          normalize_house_number(api_house_num))
       IN  IF matches
           THEN /\ best_match' = scan
                /\ pc' = "build"
                /\ scan' = scan
           ELSE /\ best_match' = best_match
                /\ IF scan < Len(features.rows)
                   THEN scan' = scan + 1 /\ pc' = pc
                   ELSE pc' = "build" /\ scan' = scan
    /\ UNCHANGED <<Units, Ambient, upstream, address, features, identifiers, geocoder_calls, Fetcher, Philly,
                   Service>>

\* if not best_match: best_match = data['features'][0]; build and return the bundle
BuildBundle ==
    /\ pc = "build"
    /\ LET chosen == IF best_match = 0 THEN 1 ELSE best_match
       IN  identifiers' = Bundle(features.rows[chosen])
    /\ pc' = "resolved"
    /\ UNCHANGED <<Units, Ambient, upstream, address, features, scan, best_match, geocoder_calls, Fetcher,
                   Philly, Service>>

InitResolve ==
    /\ address \in Addresses
    /\ features = NoAnswer
    /\ scan = 0
    /\ best_match = 0
    /\ identifiers = NoIds
    /\ pc = "geocode"
    /\ strategies = <<>>
    /\ idx = 1
    /\ data = <<>>
    /\ result = EmptyResult
    /\ queries = <<>>
    /\ found_using = NotFound
    /\ failed = {}
    /\ rejected = {}
    /\ PhillyIdle
    /\ ServiceIdle
    /\ AmbientIdle
    /\ UnitsIdle

NextResolve ==
    \/ Geocode
    \/ ScanCandidate
    \/ BuildBundle
    \/ CheckIdentifiers
    \/ NotFoundResponse

SpecResolve == InitResolve /\ [][NextResolve]_vars

-----------------------------------------------------------------------------
(* The NYC pipeline, from the resolver's return value on *)

BblValues ==
    {NoneT,
     <<"3", "0">>,
     <<"4", "0", "0", "0", "1", "2", "0", "0", "0", "3">>,
     <<"4", "0", "0", "0", "0", "0", "0", "0", "0", "3">>}

Boroughs == {None, "", "Queens"}

PipelineFeatures ==
    [housenumber : {<<"1">>}, street : {<<"A">>}, bin : {None, "B1"},
     bbl : BblValues, borough : Boroughs]

\* the resolver returned one of the bundles (or None) for an NYC address
NycArrives(bundles) ==
    /\ address = <<>>
    /\ features = NoAnswer
    /\ scan = 0
    /\ best_match = 0
    /\ identifiers \in bundles
    /\ pc = "resolved"
    /\ strategies = <<>>
    /\ idx = 1
    /\ data = <<>>
    /\ result = EmptyResult
    /\ queries = <<>>
    /\ found_using = NotFound
    /\ failed = {}
    /\ rejected = {}
    /\ PhillyIdle
    /\ ServiceIdle
    /\ UnitsIdle

Init ==
    /\ NycArrives({NoIds} \cup {Bundle(f) : f \in PipelineFeatures})
    /\ AmbientIdle

Next ==
    \/ CheckIdentifiers
    \/ FetchStart
    \/ HpdStrategies
    \/ HpdQuery
    \/ HpdValidate
    \/ DobStrategies
    \/ DobQuery
    \/ DobValidate
    \/ ElevatorQuery
    \/ ElevatorStore
    \/ BoilerQuery
    \/ BoilerStore
    \/ ElectricalStrategies
    \/ ElectricalQuery
    \/ ElectricalStore
    \/ CalculateScores
    \/ BuildReport
    \/ NotFoundResponse
    \/ HandleException

Spec == Init /\ [][Next]_vars

-----------------------------------------------------------------------------
(* The Philadelphia pipeline: two requests for one address *)

\* a Philadelphia request arrives; registries are what the registries may
\* hold for its address, outages the registries that may be out of reach
\* while it is served
PhillyRequest(registries, outages) ==
    /\ address = <<>>
    /\ features = NoAnswer
    /\ scan = 0
    /\ best_match = 0
    /\ identifiers = NoIds
    /\ strategies = <<>>
    /\ idx = 1
    /\ data = <<>>
    /\ result = EmptyResult
    /\ queries = <<>>
    /\ found_using = NotFound
    /\ failed = {}
    /\ rejected = {}
    /\ registry \in registries
    /\ down \in outages
    /\ request = 1
    /\ fetched = NoLists
    /\ property_data = NoData
    /\ compliance_data = NoData
    /\ first = NoData
    /\ first_response = NoData
    /\ ServiceIdle
    /\ UnitsIdle
    /\ pc = "philly_fetch"

\* every combination of answers of the five registries
Registries ==
    [permits : PhillyAnswers("permits"),
     violations : PhillyAnswers("violations"),
     certifications : PhillyAnswers("certifications"),
     certification_summary : PhillyAnswers("certification_summary"),
     investigations : PhillyAnswers("investigations")]

PhillyArrives(outages) ==
    /\ PhillyRequest(Registries, outages)
    /\ AmbientIdle

InitPhilly == PhillyArrives(PhillyCategories \cup {"none"})

NextPhilly ==
    \/ PhillyFetch
    \/ PhillyScore
    \/ PhillyExtract
    \/ PhillyScores
    \/ PhillyReport
    \/ HandleException
    \/ NextRequest

SpecPhilly == InitPhilly /\ [][NextPhilly]_vars

-----------------------------------------------------------------------------
(* The service: one request, routed to the NYC or the Philadelphia handler *)

InitService == Init \/ PhillyArrives({"none"})

NextService ==
    \/ Next
    \/ PhillyFetch
    \/ PhillyScore
    \/ PhillyExtract
    \/ PhillyScores
    \/ PhillyReport

SpecService == InitService /\ [][NextService]_vars

-----------------------------------------------------------------------------
(* The Philadelphia scorers applied to lists of records: the score of the   *)
(* client, passed through get_philly_compliance_data and                     *)
(* calculate_philly_scores, is recomputed each time a record is added        *)

ScoredViolationRows ==
    [status : ViolationStatuses \ {NoneT}, violationtype : ViolationTypes]

ScoredPermitRows == [permitissuedate : {"last_week", "three_years_ago"}]

ScoredCertificationRows ==
    [expiration_date : {"three_years_ago", "next_year", None},
     status : CertificationStatuses \ {NoneT}]

\* get_comprehensive_property_data's return value for the lists, then
\* get_philly_compliance_data and calculate_philly_scores
Rescore(lists) ==
    /\ fetched' = lists
    /\ property_data' =
           PropertyData(lists.permits, lists.violations, lists.certifications,
                        lists.certification_summary, lists.investigations)
    /\ compliance_data' = get_philly_compliance_data(property_data')
    /\ scores' = calculate_philly_scores(compliance_data')
    /\ UNCHANGED <<Units, Ambient, upstream, Nyc, registry, down, request, first, first_response,
                   response, pc>>

AddViolation ==
    /\ pc = "scoring"
    /\ Len(fetched.violations) < MaxViolations
    /\ \E v \in ScoredViolationRows :
           Rescore([fetched EXCEPT !.violations = Append(@, v)])

AddPermit ==
    /\ pc = "scoring"
    /\ Len(fetched.permits) < MaxScoredPermits
    /\ \E q \in ScoredPermitRows :
           Rescore([fetched EXCEPT !.permits = Append(@, q)])

AddCertification ==
    /\ pc = "scoring"
    /\ Len(fetched.certifications) < MaxScoredCertifications
    /\ \E c \in ScoredCertificationRows :
           Rescore([fetched EXCEPT !.certifications = Append(@, c)])

InitScore ==
    /\ address = <<>>
    /\ features = NoAnswer
    /\ scan = 0
    /\ best_match = 0
    /\ identifiers = NoIds
    /\ strategies = <<>>
    /\ idx = 1
    /\ data = <<>>
    /\ result = EmptyResult
    /\ queries = <<>>
    /\ found_using = NotFound
    /\ failed = {}
    /\ rejected = {}
    /\ geocoder_calls = 0
    /\ AmbientIdle
    /\ UnitsIdle
    /\ registry = [category \in PhillyCategories |-> Failure]
    /\ down = "none"
    /\ request = 1
    /\ first = NoData
    /\ first_response = NoData
    /\ response = NoData
    /\ fetched = NoLists
    /\ property_data = PropertyData(<<>>, <<>>, <<>>, <<>>, <<>>)
    /\ compliance_data = get_philly_compliance_data(property_data)
    /\ scores = calculate_philly_scores(compliance_data)
    /\ pc = "scoring"

NextScore ==
    \/ AddViolation
    \/ AddPermit
    \/ AddCertification

SpecScore == InitScore /\ [][NextScore]_vars

-----------------------------------------------------------------------------
(* _categorize_violation_risk applied to descriptions built word by word *)

MaxWords == 2       \* most words of a violation description

\* no request is being served
PipelineIdle ==
    /\ address = <<>>
    /\ features = NoAnswer
    /\ scan = 0
    /\ best_match = 0
    /\ identifiers = NoIds
    /\ strategies = <<>>
    /\ idx = 1
    /\ data = <<>>
    /\ result = EmptyResult
    /\ queries = <<>>
    /\ found_using = NotFound
    /\ failed = {}
    /\ rejected = {}
    /\ PhillyIdle
    /\ ServiceIdle
    /\ AmbientIdle

\* "Fire", "wall", "wiring", "hvac", "pipe", "housing", "use", "ok"
DescriptionWords ==
    {<<"F", "i", "r", "e">>,
     <<"w", "a", "l", "l">>,
     <<"w", "i", "r", "i", "n", "g">>,
     <<"h", "v", "a", "c">>,
     <<"p", "i", "p", "e">>,
     <<"h", "o", "u", "s", "i", "n", "g">>,
     <<"u", "s", "e">>,
     <<"o", "k">>}

WordCount(t) ==
    IF t = NoneT \/ t = <<>>
    THEN 0
    ELSE 1 + Cardinality({i \in DOMAIN t : t[i] = " "})

\* the violationtype column of the next violation holds one more word
DescribeMore ==
    /\ pc = "categorize"
    /\ WordCount(violationtype) < MaxWords
    /\ \E w \in DescriptionWords :
           violationtype' = IF WordCount(violationtype) = 0
                            THEN w
                            ELSE violationtype \o <<" ">> \o w
    /\ risk_type' = None
    /\ UNCHANGED <<Ambient, upstream, Nyc, Philly, Service, pc, mechanical_permits,
                   permit_idx, device_info, boiler_devices, boiler_report,
                   permit_data>>

\* violation_type = self._categorize_violation_risk(violation.get('violationtype', ''))
Categorize ==
    /\ pc = "categorize"
    /\ risk_type = None
    /\ risk_type' = _categorize_violation_risk(violationtype)
    /\ UNCHANGED <<Ambient, upstream, Nyc, Philly, Service, pc, violationtype,
                   mechanical_permits, permit_idx, device_info, boiler_devices,
                   boiler_report, permit_data>>

InitCategorize ==
    /\ PipelineIdle
    /\ violationtype \in {NoneT, <<>>}
    /\ risk_type = None
    /\ mechanical_permits = <<>>
    /\ permit_idx = 0
    /\ device_info = NoData
    /\ boiler_devices = <<>>
    /\ boiler_report = NoData
    /\ permit_data = NoData
    /\ pc = "categorize"

NextCategorize ==
    \/ DescribeMore
    \/ Categorize

SpecCategorize == InitCategorize /\ [][NextCategorize]_vars

-----------------------------------------------------------------------------
(* The client's scorer applied to growing lists of permits and              *)
(* certifications, for a fixed list of violations                            *)

MaxBonusPermits == 6            \* longest permit list of these runs
MaxBonusCertifications == 6     \* longest certification list of these runs

\* an open violation whose description holds fire-safety terms
FireOpen ==
    [status |-> <<"O", "p", "e", "n">>,
     violationtype |-> <<"F", "i", "r", "e", " ", "e", "x", "i", "t">>]

\* no violation, one open fire violation, four of them (a score of 0)
BonusViolations ==
    {<<>>, <<FireOpen>>, <<FireOpen, FireOpen, FireOpen, FireOpen>>}

BonusCertificationRows ==
    [expiration_date : {"three_years_ago", "next_year"},
     status : CertificationStatuses \ {NoneT}]

AddBonusPermit ==
    /\ pc = "bonus"
    /\ Len(fetched.permits) < MaxBonusPermits
    /\ \E q \in ScoredPermitRows :
           Rescore([fetched EXCEPT !.permits = Append(@, q)])

AddBonusCertification ==
    /\ pc = "bonus"
    /\ Len(fetched.certifications) < MaxBonusCertifications
    /\ \E c \in BonusCertificationRows :
           Rescore([fetched EXCEPT !.certifications = Append(@, c)])

InitBonus ==
    /\ address = <<>>
    /\ features = NoAnswer
    /\ scan = 0
    /\ best_match = 0
    /\ identifiers = NoIds
    /\ strategies = <<>>
    /\ idx = 1
    /\ data = <<>>
    /\ result = EmptyResult
    /\ queries = <<>>
    /\ found_using = NotFound
    /\ failed = {}
    /\ rejected = {}
    /\ geocoder_calls = 0
    /\ AmbientIdle
    /\ UnitsIdle
    /\ registry = [category \in PhillyCategories |-> Failure]
    /\ down = "none"
    /\ request = 1
    /\ first = NoData
    /\ first_response = NoData
    /\ response = NoData
    /\ \E violations \in BonusViolations :
           fetched = [NoLists EXCEPT !.violations = violations]
    /\ property_data = PropertyData(<<>>, fetched.violations, <<>>, <<>>, <<>>)
    /\ compliance_data = get_philly_compliance_data(property_data)
    /\ scores = calculate_philly_scores(compliance_data)
    /\ pc = "bonus"

NextBonus ==
    \/ AddBonusPermit
    \/ AddBonusCertification

SpecBonus == InitBonus /\ [][NextBonus]_vars

-----------------------------------------------------------------------------
(* Reports of properties with many records: the datasets and registries     *)
(* hold up to MaxFetched records of the building                             *)

MaxFetched == 51    \* longest answer of a dataset or registry in these runs

FetchedLengths == {0, 1, DisplayCap, MaxFetched}

\* the bundle of a building with all its keys
FullBundle ==
    Bundle([housenumber |-> <<"1">>, street |-> <<"A">>, bin |-> "B1",
            bbl |-> <<"4", "0", "0", "0", "1", "2", "0", "0", "0", "3">>,
            borough |-> "Queens"])

Datasets == {DatasetOf(category) : category \in Categories}

StrategyLabels == {"BIN", "BBL", "Borough/Block"}

\* n records of building B1
LongAnswer(n) == [ok |-> TRUE, rows |-> [k \in 1..n |-> Rec(k, "B1")]]

\* the datasets hold n[dataset] records of the building under each of its keys
HeldAnswers(who, n) ==
    [q \in {who} \X (DOMAIN n) \X StrategyLabels |-> LongAnswer(n[q[2]])]

\* the rows of a registry's long answer: these kinds of row, in turn
RowKinds(category) ==
    CASE category = "permits" ->
             <<[permitissuedate |-> "last_week"],
               [permitissuedate |-> "three_years_ago"]>>
      [] category = "violations" ->
             <<[status |-> <<"O", "p", "e", "n">>, violationtype |-> NoneT],
               [status |-> <<"C", "l", "o", "s", "e", "d">>, violationtype |-> NoneT]>>
      [] category = "certifications" ->
             <<[expiration_date |-> "next_year",
                status |-> <<"A", "c", "t", "i", "v", "e">>],
               [expiration_date |-> None,
                status |-> <<"A", "c", "t", "i", "v", "e">>]>>
      [] category = "certification_summary" -> <<[structure_id |-> "S1"]>>
      [] category = "investigations" -> <<[casenumber |-> "K1"]>>

LongRows(category, n) ==
    [k \in 1..n |-> RowKinds(category)[(k % Len(RowKinds(category))) + 1]]

LongRegistries ==
    {[category \in PhillyCategories |->
          [ok |-> TRUE, rows |-> LongRows(category, n[category])]] :
         n \in [PhillyCategories -> FetchedLengths]}

\* generate_report.py main: the same report printed by the command line
MainReport ==
    /\ pc = "scored"
    /\ response' =
           [exit |-> 0,
            body |-> [success |-> TRUE,
                      property |-> identifiers,
                      scores |-> scores,
                      data |-> [c \in Categories |-> Shown(result[c])],
                      generated_at |-> "now"]]
    /\ pc' = "responded"
    /\ UNCHANGED <<Units, Ambient, upstream, Resolver, Philly, Fetcher, identifiers, scores>>

InitDisplay ==
    \/ /\ NycArrives({FullBundle})
       /\ clock = 0
       /\ SchedulerIdle
       /\ \E n \in [Datasets -> FetchedLengths] :
              upstream = [fixed |-> TRUE, answers |-> HeldAnswers(1, n)]
    \/ /\ PhillyRequest(LongRegistries, {"none"})
       /\ AmbientIdle

NextDisplay ==
    \/ CheckIdentifiers
    \/ FetchStart
    \/ HpdStrategies
    \/ HpdQuery
    \/ HpdValidate
    \/ DobStrategies
    \/ DobQuery
    \/ DobValidate
    \/ ElevatorQuery
    \/ ElevatorStore
    \/ BoilerQuery
    \/ BoilerStore
    \/ ElectricalStrategies
    \/ ElectricalQuery
    \/ ElectricalStore
    \/ CalculateScores
    \/ BuildReport
    \/ MainReport
    \/ PhillyFetch
    \/ PhillyScore
    \/ PhillyExtract
    \/ PhillyScores
    \/ PhillyReport

SpecDisplay == InitDisplay /\ [][NextDisplay]_vars

-----------------------------------------------------------------------------
(* The service asked twice for the same address, the geocoder, the datasets *)
(* and the registries answering the second time as they did the first        *)

Later == 366        \* days between the two requests when they are far apart

TwiceBundles ==
    {NoIds, FullBundle,
     Bundle([housenumber |-> <<"1">>, street |-> <<"A">>, bin |-> "B1",
             bbl |-> NoneT, borough |-> "Queens"])}

\* the NYC handler is called again for the address: the resolver returns the
\* same bundle, every local starts afresh
Rerun ==
    /\ pc = "responded"
    /\ request = 0
    /\ first_response = NoData
    /\ first_response' = response
    /\ strategies' = <<>>
    /\ idx' = 1
    /\ data' = <<>>
    /\ result' = EmptyResult
    /\ queries' = <<>>
    /\ found_using' = NotFound
    /\ failed' = {}
    /\ rejected' = {}
    /\ scores' = NoData
    /\ response' = NoData
    /\ pc' = "resolved"
    /\ UNCHANGED <<Units, Ambient, upstream, Resolver, identifiers, registry, down,
                   request, fetched, property_data, compliance_data, first>>

\* the second Philadelphia request comes Later days after the first
NextRequestLater ==
    /\ pc = "responded"
    /\ request = 1
    /\ first' = compliance_data
    /\ first_response' = response
    /\ request' = 2
    /\ clock' = clock + Later
    /\ fetched' = NoLists
    /\ property_data' = NoData
    /\ compliance_data' = NoData
    /\ scores' = NoData
    /\ response' = NoData
    /\ pc' = "philly_fetch"
    /\ UNCHANGED <<Units, upstream, running, parked, alone, Nyc, registry, down>>

\* What a dataset holds for the address: it is out of reach, holds nothing,
\* holds one record of the building under each key, or is out of reach for
\* the BIN and holds a neighbour's record and the building's under the
\* other keys.
AnswerKinds == {"down", "none", "own", "fallback"}

KindAnswer(kind, who, label) ==
    CASE kind = "down" -> [ok |-> FALSE, rows |-> <<>>]
      [] kind = "none" -> [ok |-> TRUE, rows |-> <<>>]
      [] kind = "own" -> [ok |-> TRUE, rows |-> <<Rec(1, who)>>]
      [] kind = "fallback" ->
             IF label = "BIN"
             THEN [ok |-> FALSE, rows |-> <<>>]
             ELSE [ok |-> TRUE, rows |-> <<Rec(1, "B0"), Rec(2, who)>>]

\* the answers held for request `who`, about the building with that BIN
KindAnswers(who, bin, kinds) ==
    [q \in {who} \X Datasets \X StrategyLabels |->
         KindAnswer(kinds[q[2]], bin, q[3])]

InitTwice ==
    \/ /\ NycArrives(TwiceBundles)
       /\ clock = 0
       /\ SchedulerIdle
       /\ \E kinds \in [Datasets -> AnswerKinds] :
              upstream = [fixed |-> TRUE, answers |-> KindAnswers(1, "B1", kinds)]
    \/ PhillyArrives({"none"})

NextTwice ==
    \/ NextService
    \/ Rerun
    \/ NextRequest
    \/ NextRequestLater

SpecTwice == InitTwice /\ [][NextTwice]_vars

-----------------------------------------------------------------------------
(* Two NYC requests for different addresses. Each is first served alone;   *)
(* then both are served together, the processor passing from one handler    *)
(* to the other at any step. A handler's locals are its own; the datasets    *)
(* answer each request as they did when it was served alone.                 *)

\* the locals of the handler that holds the processor
Locals ==
    [address |-> address,
     features |-> features,
     scan |-> scan,
     best_match |-> best_match,
     identifiers |-> identifiers,
     pc |-> pc,
     strategies |-> strategies,
     idx |-> idx,
     data |-> data,
     result |-> result,
     queries |-> queries,
     found_using |-> found_using,
     failed |-> failed,
     rejected |-> rejected,
     scores |-> scores,
     response |-> response,
     geocoder_calls |-> geocoder_calls]

PairAddress(who) == IF who = 1 THEN <<"1", " ", "A">> ELSE <<"2", " ", "A">>

PairBin(who) == IF who = 1 THEN "B1" ELSE "B2"

PairBundle(who) ==
    Bundle([housenumber |-> <<IF who = 1 THEN "1" ELSE "2">>, street |-> <<"A">>,
            bin |-> PairBin(who),
            bbl |-> <<"4", "0", "0", "0", "1", "2", "0", "0", "0", "3">>,
            borough |-> "Queens"])

\* the locals of a handler whose resolver has just returned
Fresh(who) ==
    [address |-> PairAddress(who),
     features |-> NoAnswer,
     scan |-> 0,
     best_match |-> 0,
     identifiers |-> PairBundle(who),
     pc |-> "resolved",
     strategies |-> <<>>,
     idx |-> 1,
     data |-> <<>>,
     result |-> EmptyResult,
     queries |-> <<>>,
     found_using |-> NotFound,
     failed |-> {},
     rejected |-> {},
     scores |-> NoData,
     response |-> NoData,
     geocoder_calls |-> 1]

Loaded(l) ==
    /\ address = l.address
    /\ features = l.features
    /\ scan = l.scan
    /\ best_match = l.best_match
    /\ identifiers = l.identifiers
    /\ pc = l.pc
    /\ strategies = l.strategies
    /\ idx = l.idx
    /\ data = l.data
    /\ result = l.result
    /\ queries = l.queries
    /\ found_using = l.found_using
    /\ failed = l.failed
    /\ rejected = l.rejected
    /\ scores = l.scores
    /\ response = l.response
    /\ geocoder_calls = l.geocoder_calls

\* the processor takes up the handler with locals l
Load(l) ==
    /\ address' = l.address
    /\ features' = l.features
    /\ scan' = l.scan
    /\ best_match' = l.best_match
    /\ identifiers' = l.identifiers
    /\ pc' = l.pc
    /\ strategies' = l.strategies
    /\ idx' = l.idx
    /\ data' = l.data
    /\ result' = l.result
    /\ queries' = l.queries
    /\ found_using' = l.found_using
    /\ failed' = l.failed
    /\ rejected' = l.rejected
    /\ scores' = l.scores
    /\ response' = l.response
    /\ geocoder_calls' = l.geocoder_calls

\* one kind of answer from every dataset, or a different kind from each
PairKinds ==
    {[dataset \in Datasets |-> kind] : kind \in AnswerKinds}
        \cup {[hpd_violations |-> "own", dob_violations |-> "fallback",
               elevator_inspections |-> "own", boiler_inspections |-> "none",
               electrical_permits |-> "fallback"]}

\* the request served alone has been answered: its response is kept, and
\* the other request is served alone, or both are served together
FinishAlone ==
    /\ pc = "responded"
    /\ parked = NoData
    /\ alone[running] = NoData
    /\ alone' = [alone EXCEPT ![running] = response]
    /\ IF running = 1
       THEN /\ running' = 2
            /\ Load(Fresh(2))
            /\ parked' = parked
       ELSE /\ running' = 1
            /\ Load(Fresh(1))
            /\ parked' = Fresh(2)
    /\ UNCHANGED <<Units, clock, upstream, Philly>>

\* mutant: the handlers share one result dict
Switch_SharesResult ==
    /\ parked # NoData
    /\ Load([parked EXCEPT !.result = result])
    /\ parked' = Locals
    /\ running' = 3 - running
    /\ UNCHANGED <<Units, clock, upstream, alone, Philly>>

\* the processor passes to the other handler
Switch ==
    /\ parked # NoData
    /\ Load(parked)
    /\ parked' = Locals
    /\ running' = 3 - running
    /\ UNCHANGED <<Units, clock, upstream, alone, Philly>>

InitPair ==
    /\ Loaded(Fresh(1))
    /\ PhillyIdle
    /\ UnitsIdle
    /\ clock = 0
    /\ running = 1
    /\ parked = NoData
    /\ alone = [who \in 1..2 |-> NoData]
    /\ \E kinds \in [1..2 -> PairKinds] :
           upstream = [fixed |-> TRUE,
                       answers |-> KindAnswers(1, PairBin(1), kinds[1])
                                       @@ KindAnswers(2, PairBin(2), kinds[2])]

NextPair ==
    \/ CheckIdentifiers
    \/ FetchStart
    \/ HpdStrategies
    \/ HpdQuery
    \/ HpdValidate
    \/ DobStrategies
    \/ DobQuery
    \/ DobValidate
    \/ ElevatorQuery
    \/ ElevatorStore
    \/ BoilerQuery
    \/ BoilerStore
    \/ ElectricalStrategies
    \/ ElectricalQuery
    \/ ElectricalStore
    \/ CalculateScores
    \/ BuildReport
    \/ FinishAlone
    \/ Switch

SpecPair == InitPair /\ [][NextPair]_vars

-----------------------------------------------------------------------------
(* parse_boiler_device_info applied to permit records whose scope of work   *)
(* is written word by word, and get_boiler_data over the permit registry     *)

MaxScopeWords == 3              \* most words of an approved scope of work
MaxMechanicalPermits == 2       \* longest answer of the permit registry
MaxMechanicalViolations == 1    \* longest answer of the violation registry

\* what a function that ends without a return statement hands back
NullResult == [null |-> TRUE]

\* row.get(key), for a column that holds text and for any other column
GetT(row, key) == IF key \in DOMAIN row THEN row[key] ELSE NoneT
Get(row, key) == IF key \in DOMAIN row THEN row[key] ELSE None

\* the characters \s stands for
Whitespace == {" ", "\t", "\n"}

UpperLetters ==
    {"A", "B", "C", "D", "E", "F", "G", "H", "I", "J", "K", "L", "M",
     "N", "O", "P", "Q", "R", "S", "T", "U", "V", "W", "X", "Y", "Z"}

\* length of the longest run of characters of set that starts at text[i]
RECURSIVE RunLen(_, _, _)
RunLen(text, i, set) ==
    IF i <= Len(text) /\ text[i] \in set
    THEN 1 + RunLen(text, i + 1, set)
    ELSE 0

StartsWith(text, i, word) ==
    /\ i + Len(word) - 1 <= Len(text)
    /\ SubSeq(text, i, i + Len(word) - 1) = word

\* str.strip()
TrimWs(t) ==
    LET lead == RunLen(t, 1, Whitespace)
        rest == SubSeq(t, lead + 1, Len(t))
        keep == {n \in 0..Len(rest) : n = 0 \/ rest[n] \notin Whitespace}
    IN  SubSeq(rest, 1, CHOOSE n \in keep : \A m \in keep : m <= n)

\* the indices at which a match of the alternative toks that starts at
\* text[i] can end (one past its last character)
RECURSIVE Ends(_, _, _)
Ends(text, i, toks) ==
    IF toks = <<>>
    THEN {i}
    ELSE LET tk == Head(toks)
             rest == Tail(toks)
         IN  CASE tk = "\\s+" ->
                      UNION {Ends(text, i + k, rest) :
                                 k \in 1..RunLen(text, i, Whitespace)}
               [] tk = ".?" ->
                      Ends(text, i, rest) \cup
                      (IF i <= Len(text) /\ text[i] # "\n"
                       THEN Ends(text, i + 1, rest)
                       ELSE {})
               [] tk = "\\d" ->
                      IF i <= Len(text) /\ text[i] \in Digits
                      THEN Ends(text, i + 1, rest)
                      ELSE {}
               [] OTHER ->
                      IF i <= Len(text) /\ text[i] = tk
                      THEN Ends(text, i + 1, rest)
                      ELSE {}

\* re.search(pattern, text) is not None
re_search(pattern, text) ==
    \E i \in 1..Len(text), a \in DOMAIN pattern : Ends(text, i, pattern[a]) # {}

Least(set) == CHOOSE k \in set : \A j \in set : k <= j

\* for key, pattern in patterns.items(): if re.search(pattern, text): ... break
FirstKey(patterns, text) ==
    LET hits == {k \in DOMAIN patterns : re_search(patterns[k].pattern, text)}
    IN  IF hits = {} THEN None ELSE patterns[Least(hits)].key

\* device_patterns: the alternatives of each regular expression, in dict order
device_patterns ==
    <<[key |-> "boiler",
       pattern |-> <<<<"B", "O", "I", "L", "E", "R">>,
                     <<"S", "T", "E", "A", "M", "\\s+", "B", "O", "I", "L", "E", "R">>,
                     <<"H", "O", "T", "\\s+", "W", "A", "T", "E", "R", "\\s+", "B", "O", "I", "L", "E", "R">>>>],
      [key |-> "water_heater",
       pattern |-> <<<<"W", "A", "T", "E", "R", "\\s+", "H", "E", "A", "T", "E", "R">>,
                     <<"H", "O", "T", "\\s+", "W", "A", "T", "E", "R", "\\s+", "H", "E", "A", "T", "E", "R">>>>],
      [key |-> "furnace",
       pattern |-> <<<<"F", "U", "R", "N", "A", "C", "E">>,
                     <<"H", "E", "A", "T", "I", "N", "G", "\\s+", "U", "N", "I", "T">>,
                     <<"W", "A", "R", "M", ".?", "A", "I", "R", "\\s+", "A", "P", "P", "L", "I", "A", "N", "C", "E">>>>],
      [key |-> "hvac",
       pattern |-> <<<<"H", "V", "A", "C">>,
                     <<"A", "I", "R", "\\s+", "C", "O", "N", "D", "I", "T", "I", "O", "N">>,
                     <<"A", "/", "C">>,
                     <<"A", "C", "\\s+", "U", "N", "I", "T">>,
                     <<"A", "I", "R", "\\s+", "H", "A", "N", "D", "L", "E", "R">>>>],
      [key |-> "heat_pump",
       pattern |-> <<<<"H", "E", "A", "T", "\\s+", "P", "U", "M", "P">>>>],
      [key |-> "chiller",
       pattern |-> <<<<"C", "H", "I", "L", "L", "E", "R">>>>],
      [key |-> "burner",
       pattern |-> <<<<"B", "U", "R", "N", "E", "R">>,
                     <<"G", "A", "S", "\\s+", "B", "U", "R", "N", "E", "R">>,
                     <<"O", "I", "L", "\\s+", "B", "U", "R", "N", "E", "R">>>>]>>

\* fuel_patterns
fuel_patterns ==
    <<[key |-> "natural_gas",
       pattern |-> <<<<"N", "A", "T", "U", "R", "A", "L", "\\s+", "G", "A", "S">>,
                     <<"G", "A", "S", "\\s+", "F", "I", "R", "E", "D">>,
                     <<"G", "A", "S", "\\s+", "B", "U", "R", "N", "E", "R">>>>],
      [key |-> "oil",
       pattern |-> <<<<"O", "I", "L", "\\s+", "F", "I", "R", "E", "D">>,
                     <<"F", "U", "E", "L", "\\s+", "O", "I", "L">>,
                     <<"#", "\\d", "\\s+", "O", "I", "L">>>>],
      [key |-> "electric",
       pattern |-> <<<<"E", "L", "E", "C", "T", "R", "I", "C">>,
                     <<"E", "L", "E", "C", "T", "R", "I", "C", "A", "L">>>>],
      [key |-> "propane",
       pattern |-> <<<<"P", "R", "O", "P", "A", "N", "E">>,
                     <<"L", "P", "\\s+", "G", "A", "S">>,
                     <<"L", "P", "G">>>>],
      [key |-> "dual_fuel",
       pattern |-> <<<<"D", "U", "A", "L", "\\s+", "F", "U", "E", "L">>,
                     <<"G", "A", "S", "/", "O", "I", "L">>>>]>>

\* work_patterns
work_patterns ==
    <<[key |-> "install",
       pattern |-> <<<<"I", "N", "S", "T", "A", "L", "L">>,
                     <<"I", "N", "S", "T", "A", "L", "L", "A", "T", "I", "O", "N">>>>],
      [key |-> "replace",
       pattern |-> <<<<"R", "E", "P", "L", "A", "C", "E">>,
                     <<"R", "E", "P", "L", "A", "C", "E", "M", "E", "N", "T">>>>],
      [key |-> "repair",
       pattern |-> <<<<"R", "E", "P", "A", "I", "R">>,
                     <<"F", "I", "X">>>>],
      [key |-> "upgrade",
       pattern |-> <<<<"U", "P", "G", "R", "A", "D", "E">>,
                     <<"M", "O", "D", "I", "F", "Y">>>>],
      [key |-> "maintain",
       pattern |-> <<<<"M", "A", "I", "N", "T", "A", "I", "N">>,
                     <<"S", "E", "R", "V", "I", "C", "E">>>>]>>

\* location_patterns
location_patterns ==
    <<[key |-> "basement",
       pattern |-> <<<<"B", "A", "S", "E", "M", "E", "N", "T">>,
                     <<"C", "E", "L", "L", "A", "R">>>>],
      [key |-> "roof",
       pattern |-> <<<<"R", "O", "O", "F">>,
                     <<"R", "O", "O", "F", "T", "O", "P">>>>],
      [key |-> "mechanical_room",
       pattern |-> <<<<"M", "E", "C", "H", "A", "N", "I", "C", "A", "L", "\\s+", "R", "O", "O", "M">>,
                     <<"M", "E", "C", "H", "\\s+", "R", "O", "O", "M">>,
                     <<"B", "O", "I", "L", "E", "R", "\\s+", "R", "O", "O", "M">>>>],
      [key |-> "exterior",
       pattern |-> <<<<"E", "X", "T", "E", "R", "I", "O", "R">>,
                     <<"O", "U", "T", "S", "I", "D", "E">>>>],
      [key |-> "garage",
       pattern |-> <<<<"G", "A", "R", "A", "G", "E">>>>],
      [key |-> "utility_room",
       pattern |-> <<<<"U", "T", "I", "L", "I", "T", "Y", "\\s+", "R", "O", "O", "M">>>>]>>

\* the alternatives of manufacturer_patterns[0]
ManufacturerNames ==
    <<<<"C", "A", "R", "R", "I", "E", "R">>,
      <<"T", "R", "A", "N", "E">>,
      <<"L", "E", "N", "N", "O", "X">>,
      <<"R", "H", "E", "E", "M">>,
      <<"B", "R", "A", "D", "F", "O", "R", "D", "\\s+", "W", "H", "I", "T", "E">>,
      <<"A", "O", "\\s+", "S", "M", "I", "T", "H">>,
      <<"W", "E", "I", "L", "\\s+", "M", "C", "L", "A", "I", "N">>,
      <<"B", "U", "D", "E", "R", "U", "S">>,
      <<"N", "A", "V", "I", "E", "N">>,
      <<"R", "I", "N", "N", "A", "I">>,
      <<"N", "O", "R", "I", "T", "Z">>>>

\* capacity_patterns: a number, with thousands groups (?:,\d+)* and decimals
\* (?:\.\d+)? where the expression has them, \s*, then one of the units
capacity_patterns ==
    <<[commas |-> TRUE, decimals |-> TRUE,
       units |-> <<<<"B", "T", "U">>,
                   <<"B", "T", "U", "H">>,
                   <<"M", "B", "H">>,
                   <<"M", "M", "B", "T", "U">>>>],
      [commas |-> FALSE, decimals |-> TRUE,
       units |-> <<<<"H", "P">>,
                   <<"H", "O", "R", "S", "E", "P", "O", "W", "E", "R">>>>],
      [commas |-> FALSE, decimals |-> TRUE,
       units |-> <<<<"T", "O", "N">>,
                   <<"T", "O", "N", "S">>>>],
      [commas |-> TRUE, decimals |-> FALSE,
       units |-> <<<<"C", "F", "M">>>>],
      [commas |-> TRUE, decimals |-> FALSE,
       units |-> <<<<"K", "W">>,
                   <<"K", "I", "L", "O", "W", "A", "T", "T">>>>]>>

\* (?:,\d+)*: the index after the thousands groups that start at text[j]
RECURSIVE CommaGroups(_, _)
CommaGroups(text, j) ==
    IF j <= Len(text) /\ text[j] = "," /\ RunLen(text, j + 1, Digits) > 0
    THEN CommaGroups(text, j + 1 + RunLen(text, j + 1, Digits))
    ELSE j

\* the index after the number of capacity pattern p that starts at text[i]
NumberEnd(text, i, p) ==
    LET whole == i + RunLen(text, i, Digits)
        grouped == IF p.commas THEN CommaGroups(text, whole) ELSE whole
    IN  IF /\ p.decimals
           /\ grouped <= Len(text)
           /\ text[grouped] = "."
           /\ RunLen(text, grouped + 1, Digits) > 0
        THEN grouped + 1 + RunLen(text, grouped + 1, Digits)
        ELSE grouped

\* the units of p that follow the number at text[i] and the whitespace after it
UnitsAt(text, i, p) ==
    LET e == NumberEnd(text, i, p)
        u == e + RunLen(text, e, Whitespace)
    IN  {k \in DOMAIN p.units : StartsWith(text, u, p.units[k])}

CapacityStarts(text, p) ==
    {i \in 1..Len(text) : text[i] \in Digits /\ UnitsAt(text, i, p) # {}}

\* for pattern in capacity_patterns: match = re.search(pattern, scope_text);
\* f"{match.group(1).replace(',', '')} {match.group(2)}" of the first match
Capacity(text) ==
    LET hits == {k \in DOMAIN capacity_patterns :
                     CapacityStarts(text, capacity_patterns[k]) # {}}
    IN  IF hits = {}
        THEN NoneT
        ELSE LET p == capacity_patterns[Least(hits)]
                 i == Least(CapacityStarts(text, p))
                 value == SubSeq(text, i, NumberEnd(text, i, p) - 1)
                 unit == p.units[Least(UnitsAt(text, i, p))]
             IN  Remove(value, ",") \o <<" ">> \o unit

ManufacturerLabel == <<"M", "A", "N", "U", "F", "A", "C", "T", "U", "R", "E", "R">>

\* MANUFACTURER[:\s]+([A-Z][A-Z\s&]+) at text[i]: where its group starts,
\* 0 when it does not match there
LabelledAt(text, i) ==
    LET after == i + Len(ManufacturerLabel)
        g == after + RunLen(text, after, Whitespace \cup {":"})
    IN  IF /\ StartsWith(text, i, ManufacturerLabel)
           /\ g > after
           /\ g <= Len(text)
           /\ text[g] \in UpperLetters
           /\ RunLen(text, g + 1, UpperLetters \cup Whitespace \cup {"&"}) > 0
        THEN g
        ELSE 0

\* for pattern in manufacturer_patterns: match = re.search(pattern, scope_text);
\* match.group(1).strip() of the first match
Manufacturer(text) ==
    LET named == {i \in 1..Len(text) :
                      \E a \in DOMAIN ManufacturerNames :
                          Ends(text, i, ManufacturerNames[a]) # {}}
        labelled == {i \in 1..Len(text) : LabelledAt(text, i) > 0}
    IN  IF named # {}
        THEN LET i == Least(named)
                 a == Least({b \in DOMAIN ManufacturerNames :
                                 Ends(text, i, ManufacturerNames[b]) # {}})
                 e == Least(Ends(text, i, ManufacturerNames[a]))
             IN  TrimWs(SubSeq(text, i, e - 1))
        ELSE IF labelled # {}
        THEN LET g == LabelledAt(text, Least(labelled))
                 n == RunLen(text, g + 1, UpperLetters \cup Whitespace \cup {"&"})
             IN  TrimWs(SubSeq(text, g, g + n))
        ELSE NoneT

model_patterns ==
    <<"MODEL\\s+([A-Z0-9\\-]+)",
      "MODEL[:\\s]+([A-Z0-9\\-\\s]+)">>

ModelLabel == <<"M", "O", "D", "E", "L">>

ModelCharacters == UpperLetters \cup Digits \cup {"-"}

\* MODEL\s+([A-Z0-9\-]+) at text[i]
ModelSpaced(text, i) ==
    LET after == i + Len(ModelLabel)
        g == after + RunLen(text, after, Whitespace)
        n == RunLen(text, g, ModelCharacters)
    IN  [found |-> StartsWith(text, i, ModelLabel) /\ g > after /\ n > 0,
         group |-> SubSeq(text, g, g + n - 1)]

\* MODEL[:\s]+([A-Z0-9\-\s]+) at text[i]: the separators are taken greedily;
\* when nothing of the group's class follows them, the group is the
\* whitespace at the end of the separators that gives the longest match
ModelLabelled(text, i) ==
    LET after == i + Len(ModelLabel)
        g == after + RunLen(text, after, Whitespace \cup {":"})
        n == RunLen(text, g, ModelCharacters \cup Whitespace)
        given == {k \in (after + 1)..(g - 1) : text[k] \in Whitespace}
        last == CHOOSE k \in given : \A j \in given : j <= k
    IN  IF ~StartsWith(text, i, ModelLabel) \/ g = after
        THEN [found |-> FALSE, group |-> <<>>]
        ELSE IF n > 0
        THEN [found |-> TRUE, group |-> SubSeq(text, g, g + n - 1)]
        ELSE IF given # {}
        THEN [found |-> TRUE,
              group |-> SubSeq(text, last, last + RunLen(text, last, Whitespace) - 1)]
        ELSE [found |-> FALSE, group |-> <<>>]

\* match = re.search(pattern, text): the leftmost match
ModelSearch(pattern, text) ==
    LET At(i) == IF pattern = model_patterns[1]
                 THEN ModelSpaced(text, i)
                 ELSE ModelLabelled(text, i)
        starts == {i \in 1..Len(text) : At(i).found}
    IN  IF starts = {}
        THEN [found |-> FALSE, group |-> <<>>]
        ELSE At(Least(starts))

\* for pattern in model_patterns:
\*     match = re.search(pattern, scope_text)
\*     if match: device_info['model'] = match.group(1).strip(); break
\*     return device_info
\* the return statement belongs to the loop's body: a match leaves the loop
\* and the function ends without returning, no match returns in the first turn
ModelLoop(info, text) ==
    IF model_patterns = <<>>
    THEN NullResult
    ELSE LET match == ModelSearch(model_patterns[1], text)
         IN  IF match.found THEN NullResult ELSE info

parse_boiler_device_info(permit) ==
    LET raw == GetT(permit, "approvedscopeofwork")
        info == [permit_number |-> Get(permit, "permitnumber"),
                 permit_date |-> Get(permit, "permitissuedate"),
                 address |-> Get(permit, "address"),
                 contractor |-> Get(permit, "contractorname"),
                 status |-> GetT(permit, "status"),
                 device_type |-> None,
                 capacity |-> NoneT,
                 fuel_type |-> None,
                 work_type |-> None,
                 location |-> None,
                 manufacturer |-> NoneT,
                 model |-> NoneT,
                 raw_scope |-> raw]
        scope_text == IF TruthyT(raw) THEN UpperText(raw) ELSE <<>>
    IN  IF scope_text = <<>>
        THEN info
        ELSE ModelLoop([info EXCEPT
                            !.device_type = FirstKey(device_patterns, scope_text),
                            !.capacity = Capacity(scope_text),
                            !.fuel_type = FirstKey(fuel_patterns, scope_text),
                            !.work_type = FirstKey(work_patterns, scope_text),
                            !.location = FirstKey(location_patterns, scope_text),
                            !.manufacturer = Manufacturer(scope_text)],
                       scope_text)

\* "boiler", "Model", "wm-97", "150", "btu", "Trane"
ScopeWords ==
    {<<"b", "o", "i", "l", "e", "r">>,
     <<"M", "o", "d", "e", "l">>,
     <<"w", "m", "-", "9", "7">>,
     <<"1", "5", "0">>,
     <<"b", "t", "u">>,
     <<"T", "r", "a", "n", "e">>}

IssuedT == <<"I", "s", "s", "u", "e", "d">>

\* a permit record as a caller of parse_boiler_device_info holds it, its
\* scope of work still to be written
PermitRecords ==
    [permitnumber : {"MP-1"},
     permitissuedate : {"2021-06-15", None},
     address : {"1400 John F Kennedy Blvd"},
     contractorname : {None},
     status : {IssuedT, NoneT},
     approvedscopeofwork : {NoneT, <<>>}]

\* the columns get_li_building_permits selects: permitnumber, permitissuedate,
\* address, contractorname as contractor, status (permittype, permitdescription,
\* applicationdate, bin and opa_account are read by nobody)
MechanicalRows ==
    [permitnumber : {"MP-1"},
     permitissuedate : {"2019-06-15", "2021-06-15", None},
     address : {"1400 John F Kennedy Blvd"},
     contractor : {None},
     status : {IssuedT, NoneT}]

MechanicalViolationRows == [status : {<<"O", "p", "e", "n">>, NoneT}]

ListsUpTo(rows, n) == UNION {[1..k -> rows] : k \in 0..n}

\* d['permit_date'] >= '2020-01-01', a comparison of strings
Since2020(date) == date = "2021-06-15"

\* the keys of devices_by_type, in the order of their first device
RECURSIVE DeviceTypes(_)
DeviceTypes(devices) ==
    IF devices = <<>>
    THEN <<>>
    ELSE LET earlier == DeviceTypes(SubSeq(devices, 1, Len(devices) - 1))
             t == devices[Len(devices)].device_type
         IN  IF t \in Range(earlier) THEN earlier ELSE Append(earlier, t)

\* the dict get_boiler_data returns from its try block
BoilerData(devices, permits, mechanical_violations, certifications) ==
    [address |-> "1400 John F Kennedy Blvd",
     summary |->
         [total_devices |-> Len(devices),
          active_permits |->
              Len(SelectSeq(devices,
                            LAMBDA d : TruthyT(d.status) /\
                                       UpperText(d.status) \in
                                           {<<"I", "S", "S", "U", "E", "D">>,
                                            <<"C", "O", "M", "P", "L", "E", "T", "E", "D">>})),
          recent_installations |->
              Len(SelectSeq(devices,
                            LAMBDA d : Truthy(d.permit_date) /\ Since2020(d.permit_date))),
          device_types |-> DeviceTypes(devices)],
     devices |-> devices,
     devices_by_type |->
         [t \in Range(DeviceTypes(devices)) |->
              SelectSeq(devices, LAMBDA d : d.device_type = t)],
     mechanical_permits |-> permits,
     mechanical_violations |-> mechanical_violations,
     certifications |-> certifications,
     compliance_status |->
         [total_violations |-> Len(mechanical_violations),
          open_violations |->
              Len(SelectSeq(mechanical_violations,
                            LAMBDA v : UpperText(v.status) \in
                                           {<<"O", "P", "E", "N">>,
                                            <<"A", "C", "T", "I", "V", "E">>})),
          certification_count |-> Len(certifications)]]

\* the dict get_boiler_data returns from its except block
BoilerError(e) == [address |-> "1400 John F Kennedy Blvd", error |-> e]

BoilerRest == <<Ambient, upstream, Nyc, Philly, Service, violationtype, risk_type>>

\* the approved scope of work of the permit record holds one more word
WriteScope ==
    /\ pc = "permit"
    /\ WordCount(permit_data.approvedscopeofwork) < MaxScopeWords
    /\ \E w \in ScopeWords :
           permit_data' =
               [permit_data EXCEPT !.approvedscopeofwork =
                    IF WordCount(@) = 0 THEN w ELSE @ \o <<" ">> \o w]
    /\ UNCHANGED <<BoilerRest, pc, mechanical_permits, permit_idx, device_info,
                   boiler_devices, boiler_report>>

\* device_info = self.parse_boiler_device_info(permit)
ParsePermitData ==
    /\ pc = "permit"
    /\ device_info' = parse_boiler_device_info(permit_data)
    /\ pc' = "parsed"
    /\ UNCHANGED <<BoilerRest, permit_data, mechanical_permits, permit_idx,
                   boiler_devices, boiler_report>>

\* get_boiler_data: mechanical_permits = self.get_li_building_permits(...);
\* boiler_devices = []
GetMechanicalPermits ==
    /\ pc = "boiler_data"
    /\ mechanical_permits' \in ListsUpTo(MechanicalRows, MaxMechanicalPermits)
    /\ permit_idx' = 1
    /\ boiler_devices' = <<>>
    /\ pc' = "boiler_loop"
    /\ UNCHANGED <<BoilerRest, permit_data, device_info, boiler_report>>

\* for permit in mechanical_permits: device_info = ...;
\* if device_info['device_type']: boiler_devices.append(device_info)
\* subscripting None raises TypeError, caught by get_boiler_data's except
ParseNextPermit ==
    /\ pc = "boiler_loop"
    /\ permit_idx <= Len(mechanical_permits)
    /\ device_info' = parse_boiler_device_info(mechanical_permits[permit_idx])
    /\ IF device_info' = NullResult
       THEN /\ boiler_report' = BoilerError("TypeError")
            /\ pc' = "boiler_done"
            /\ UNCHANGED <<permit_idx, boiler_devices>>
       ELSE /\ boiler_devices' = IF Truthy(device_info'.device_type)
                                 THEN Append(boiler_devices, device_info')
                                 ELSE boiler_devices
            /\ permit_idx' = permit_idx + 1
            /\ UNCHANGED <<boiler_report, pc>>
    /\ UNCHANGED <<BoilerRest, permit_data, mechanical_permits>>

\* get_boiler_data after its loop: the mechanical violations and
\* certifications are fetched and the summary is built;
\* v.get('status', '').upper() raises AttributeError on a null status
BoilerSummary ==
    /\ pc = "boiler_loop"
    /\ permit_idx > Len(mechanical_permits)
    /\ \E mechanical_violations \in
              ListsUpTo(MechanicalViolationRows, MaxMechanicalViolations),
          certifications \in {<<>>, <<[cert_type |-> "mechanical"]>>} :
           boiler_report' =
               IF \E i \in DOMAIN mechanical_violations :
                      mechanical_violations[i].status = NoneT
               THEN BoilerError("AttributeError")
               ELSE BoilerData(boiler_devices, mechanical_permits,
                               mechanical_violations, certifications)
    /\ pc' = "boiler_done"
    /\ UNCHANGED <<BoilerRest, permit_data, mechanical_permits, permit_idx,
                   device_info, boiler_devices>>

InitBoiler ==
    /\ PipelineIdle
    /\ violationtype = NoneT
    /\ risk_type = None
    /\ mechanical_permits = <<>>
    /\ permit_idx = 0
    /\ device_info = NoData
    /\ boiler_devices = <<>>
    /\ boiler_report = NoData
    /\ \/ pc = "boiler_data" /\ permit_data = NoData
       \/ pc = "permit" /\ permit_data \in PermitRecords

NextBoiler ==
    \/ WriteScope
    \/ ParsePermitData
    \/ GetMechanicalPermits
    \/ ParseNextPermit
    \/ BoilerSummary

SpecBoiler == InitBoiler /\ [][NextBoiler]_vars

-----------------------------------------------------------------------------
(* Vocabulary of the properties *)

Terminal == pc \in {"fetched", "not_found", "raised"}

HasBin == identifiers # NoIds /\ Truthy(identifiers.bin)

\* the strategy labels of a dataset's queries so far, in the order issued
QueriedFor(category) ==
    LET issued == SelectSeq(queries, LAMBDA q : q[1] = DatasetOf(category))
    IN  [i \in DOMAIN issued |-> issued[i][2]]

\* the documented priority order of a category's strategies
PriorityOrder(category) ==
    CASE category \in {"hpd_violations", "dob_violations"} -> <<"BIN", "BBL">>
      [] category = "electrical_permits" -> <<"BIN", "Borough/Block">>
      [] OTHER -> <<"BIN">>

Rank(category, label) ==
    CHOOSE i \in DOMAIN PriorityOrder(category) : PriorityOrder(category)[i] = label

\* the bundle carries the key a strategy needs
KeyPresent(label) ==
    CASE label = "BIN" -> identifiers.bin \notin {None, ""}
      [] label = "BBL" -> identifiers.bbl \notin {NoneT, <<>>}
      [] OTHER -> /\ identifiers.block \notin {NoneT, <<>>}
                  /\ identifiers.borough \notin {None, ""}

\* the category whose block of get_comprehensive_compliance_data ran last
BlockCategory ==
    CASE pc \in {"hpd_query", "hpd_validate", "dob_strategies"} -> "hpd_violations"
      [] pc \in {"dob_query", "dob_validate", "elevator_query"} -> "dob_violations"
      [] pc \in {"elevator_store", "boiler_query"} -> "elevator_data"
      [] pc \in {"boiler_store", "electrical_strategies"} -> "boiler_data"
      [] pc \in {"electrical_query", "electrical_store", "fetched", "scored",
                 "responded"} -> "electrical_permits"
      [] OTHER -> "none"

AfterGetData ==
    pc \in {"hpd_validate", "dob_validate", "elevator_store", "boiler_store",
            "electrical_store"}

BeforeGetData == pc \in {"hpd_query", "dob_query", "electrical_query"}

LoopLeft ==
    pc \in {"dob_strategies", "elevator_query", "boiler_query",
            "electrical_strategies", "fetched"}

Attempted(category, label) == <<DatasetOf(category), label>> \in Range(queries)

\* the k-th smallest member of a set of indices
Kth(indices, k) == CHOOSE i \in indices : Cardinality({j \in indices : j < i}) = k - 1

\* sub is exactly the members of full that carry bin b, in full's order
IsMatchingSublist(sub, full, b) ==
    LET hits == {i \in DOMAIN full : full[i].bin = b}
    IN  /\ Len(sub) = Cardinality(hits)
        /\ \A k \in DOMAIN sub : sub[k] = full[Kth(hits, k)]

-----------------------------------------------------------------------------
(* C1: with the bundle's BIN populated, no category result holds a record    *)
(* that came through a strategy coarser than BIN and whose own bin differs   *)
(* from the bundle's BIN.                                                    *)
C1_NoForeignRecord ==
    \A c \in Categories :
        (HasBin /\ found_using[c] \notin {"none", "BIN"}) =>
            \A i \in DOMAIN result[c] :
                result[c][i].bin \in {None, identifiers.bin}

(* C2: a strategy whose records were all removed by the BIN cross-check is a *)
(* miss: it is not the accepted strategy, the result holds nothing when the  *)
(* loop moves on, and the next strategy of the category is attempted.        *)
C2_RejectedIsMiss ==
    \A i \in DOMAIN strategies :
        strategies[i] \in rejected =>
            LET c == BlockCategory
            IN  /\ c \in {"hpd_violations", "dob_violations"}
                /\ found_using[c] # strategies[i]
                /\ idx > i
                /\ \/ found_using[c] = "none" /\ result[c] = <<>>
                   \/ \E j \in DOMAIN strategies : j > i /\ found_using[c] = strategies[j]
                /\ i < Len(strategies) =>
                       \/ pc \in {"hpd_query", "dob_query"} /\ idx = i + 1
                       \/ Attempted(c, strategies[i + 1])

C2_Witness ==
    /\ pc = "dob_strategies"
    /\ "BIN" \in rejected
    /\ found_using["hpd_violations"] = "BBL"

C4_KeepsRecordsWithoutBin ==
    [][(pc \in {"hpd_validate", "dob_validate"} /\ HasBin)
       => \A i \in DOMAIN data :
              data[i].bin = None => data[i] \in Range(result'[BlockCategory])]_vars

(* C5: a category's strategies are queried in the fixed priority order, each *)
(* at most once, and none after a strategy of the category was accepted.     *)
C5_OrderedOnceStopAtAccept ==
    \A c \in Categories :
        LET q == QueriedFor(c)
        IN  /\ \A i \in DOMAIN q : q[i] \in Range(PriorityOrder(c))
            /\ \A i, j \in DOMAIN q : i < j => Rank(c, q[i]) < Rank(c, q[j])
            /\ found_using[c] # "none" => (q # <<>> /\ q[Len(q)] = found_using[c])

C5_Witness ==
    /\ pc = "fetched"
    /\ identifiers.bbl \notin {NoneT, <<>>}
    /\ found_using["hpd_violations"] = "BIN"
    /\ QueriedFor("hpd_violations") = <<"BIN">>
    /\ QueriedFor("electrical_permits") = <<"BIN", "Borough/Block">>

(* C6: when the request ends, a strategy whose key the bundle lacks was      *)
(* never queried, and a strategy whose key the bundle carries was queried    *)
(* unless an earlier strategy of its category was accepted; for every        *)
(* combination of keys, BBL without BIN included.                            *)
C6_StrategiesFollowKeys ==
    (Terminal /\ identifiers # NoIds) =>
        \A c \in Categories :
            \A r \in DOMAIN PriorityOrder(c) :
                LET label == PriorityOrder(c)[r]
                IN  IF KeyPresent(label)
                    THEN \/ Attempted(c, label)
                         \/ \E e \in 1..(r - 1) : found_using[c] = PriorityOrder(c)[e]
                    ELSE ~Attempted(c, label)

(* C7: a transport failure of one strategy's query is a miss of that         *)
(* strategy only: no exception leaves the fetcher because of it, the         *)
(* strategy is not accepted, the next strategy is attempted, and what that   *)
(* one returns and validates becomes the category result.                    *)
C7_FailureIsMiss ==
    /\ failed # {} => pc # "raised"
    /\ \A i \in DOMAIN strategies :
           strategies[i] \in failed =>
               LET c == BlockCategory
               IN  /\ found_using[c] # strategies[i]
                   /\ (i < Len(strategies) /\ ~(AfterGetData /\ idx = i)) =>
                          \/ BeforeGetData /\ idx = i + 1
                          \/ Attempted(c, strategies[i + 1])
                   /\ (LoopLeft /\ data # <<>>) =>
                          /\ result[c] = data
                          /\ found_using[c] = strategies[idx]

C7_Witness ==
    /\ pc = "dob_strategies"
    /\ "BIN" \in failed
    /\ found_using["hpd_violations"] = "BBL"
    /\ result["hpd_violations"] # <<>>

-----------------------------------------------------------------------------
(* Properties of the responses *)

NotFoundText == "Property not found or BIN not available"

\* the bundle carries neither a building id nor a parcel id
NoBinNoBbl ==
    /\ identifiers # NoIds
    /\ ~Truthy(identifiers.bin)
    /\ ~TruthyT(identifiers.bbl)

(* C11: for a bundle with neither BIN nor BBL no registry query is issued,   *)
(* the request is answered 'property not found', and no scores and no report *)
(* are produced.                                                             *)
C11_NoKeysNoQuery ==
    NoBinNoBbl =>
        /\ queries = <<>>
        /\ scores = NoData
        /\ pc \in {"resolved", "not_found", "responded"}
        /\ pc = "responded" =>
               /\ response.status = 404
               /\ response.body = [error |-> NotFoundText]

C11_Witness ==
    /\ NoBinNoBbl
    /\ pc = "responded"
    /\ response.status = 404

\* the geocoder call raised (or timed out), or returned zero candidates
GeocoderFailed ==
    /\ features # NoAnswer
    /\ ~features.ok \/ features.rows = <<>>

(* C12: when the geocoder returns zero candidates or its call raises or     *)
(* times out, get_property_identifiers returns None without raising, after  *)
(* exactly one geocoder call; the caller answers 'property not found' and   *)
(* no registry query is issued.                                              *)
C12_GeocoderFailureIsNotFound ==
    GeocoderFailed =>
        /\ identifiers = NoIds
        /\ geocoder_calls = 1
        /\ queries = <<>>
        /\ pc \in {"resolved", "not_found", "responded"}
        /\ pc = "responded" =>
               /\ response.status = 404
               /\ response.body = [error |-> NotFoundText]

C12_Witness ==
    /\ features # NoAnswer
    /\ ~features.ok
    /\ geocoder_calls = 1
    /\ pc = "responded"
    /\ response.status = 404

\* the result carries, beside the record lists, an entry holding the label
CarriesLabel(label) == \E k \in DOMAIN result \ Categories : result[k] = label

(* C13: when get_comprehensive_compliance_data has returned and no strategy *)
(* of a category was accepted, the category's record list is empty and the  *)
(* result carries the strategy label "no-match" for it.                      *)
C13_AllMissIsNoMatch ==
    \A c \in Categories :
        (pc = "fetched" /\ found_using[c] = "none") =>
            /\ result[c] = <<>>
            /\ CarriesLabel("no-match")

\* the request went to generate_philly_report
InPhilly == request > 0

\* the address was resolved to a bundle the caller accepts
ResolutionSucceeded == HasBin \/ InPhilly

Answered == pc = "responded"

ReportFields == {"city", "property", "scores", "data", "generated_at"}

DataKeys ==
    IF InPhilly
    THEN {"li_permits", "li_violations", "li_certifications",
          "certification_summary", "li_investigations", "li_appeals"}
    ELSE Categories

\* the payload is a success report with all its sections
FullReport(body) ==
    /\ "success" \in DOMAIN body
    /\ body.success = TRUE
    /\ ReportFields \subseteq DOMAIN body
    /\ "error" \notin DOMAIN body
    /\ DOMAIN body.data = DataKeys

(* C14: whenever the address was resolved, whatever the registries return   *)
(* or however their calls fail, the request is answered with a full success *)
(* report: success = true, scores, and a data entry for every category.     *)
C14_AlwaysFullReport ==
    (Answered /\ ResolutionSucceeded) =>
        /\ response.status = 200
        /\ FullReport(response.body)

(* C15: every payload either carries success = false with an error string,  *)
(* or success = true with the jurisdiction tag, property, scores, data and  *)
(* generation timestamp; none has an error without success = false.          *)
C15_TwoPayloadShapes ==
    Answered =>
        \/ /\ DOMAIN response.body = {"success", "error"}
           /\ response.body.success = FALSE
        \/ FullReport(response.body)

\* a number held in tenths is an integer between 0 and 100
WholeInRange(tenths) == tenths % 10 = 0 /\ tenths \div 10 \in 0..100

(* C16: the overall score of every scorer is an integer between 0 and 100:  *)
(* calculate_scores (NYC), _calculate_enhanced_compliance_score and          *)
(* calculate_philly_scores (Philadelphia).                                   *)
C16_ScoreIsIntegerInRange ==
    /\ (scores # NoData /\ ~InPhilly) => WholeInRange(scores.overall_score)
    /\ (scores # NoData /\ InPhilly) => scores.overall_score \in 0..100
    /\ "compliance_summary" \in DOMAIN property_data =>
           property_data.compliance_summary.compliance_score \in 0..100

-----------------------------------------------------------------------------
(* Properties of the Philadelphia scorers *)

\* what _calculate_enhanced_compliance_score returned
Enhanced == property_data.compliance_summary.compliance_score

\* the overall score shown in the report
Overall == scores.overall_score

\* one open fire-safety violation was added, everything else kept
FireViolationAdded ==
    /\ fetched'.violations = Append(fetched.violations, FireOpen)
    /\ fetched'.permits = fetched.permits
    /\ fetched'.certifications = fetched.certifications

\* one certification that is not expired was added, everything else kept
ActiveCertificationAdded ==
    /\ \E c \in ScoredCertificationRows :
           /\ ~_is_expired_certification(c)
           /\ fetched'.certifications = Append(fetched.certifications, c)
    /\ fetched'.permits = fetched.permits
    /\ fetched'.violations = fetched.violations

(* C17: adding one more open fire-safety violation, all else fixed, never   *)
(* increases the overall score shown in the Philadelphia report.             *)
C17_FireViolationNeverRaises ==
    [][FireViolationAdded => Overall' <= Overall]_vars

(* C18: adding one more non-expired certification, all else fixed, never    *)
(* decreases the overall score shown in the Philadelphia report.             *)
C18_ActiveCertificationNeverLowers ==
    [][ActiveCertificationAdded => Overall' >= Overall]_vars

\* no violation but open fire-safety ones, no recent permit, no certification
OnlyFireViolations ==
    /\ pc = "scoring"
    /\ \A i \in DOMAIN fetched.violations : fetched.violations[i] = FireOpen
    /\ \A i \in DOMAIN fetched.permits : ~_is_recent_permit(fetched.permits[i])
    /\ fetched.certifications = <<>>

(* C19: for k open fire-safety violations, no recent permit and no           *)
(* certification, _calculate_enhanced_compliance_score returns               *)
(* max(0, 100 - 25 * k); 25 for k = 3.                                       *)
C19_FireOnlyScore ==
    OnlyFireViolations => Enhanced = Max(0, 100 - 25 * Len(fetched.violations))

C19_Witness ==
    /\ OnlyFireViolations
    /\ Len(fetched.violations) = 3
    /\ Enhanced = 25

\* no category of the NYC result holds a record
NycNoRecords == \A c \in Categories : result[c] = <<>>

\* no list of the Philadelphia compliance data holds a record
PhillyNoRecords ==
    /\ compliance_data # NoData
    /\ \A k \in DataKeys : compliance_data[k] = <<>>

(* C20: when no category has any record, because the registries returned    *)
(* nothing or because every call failed, the reported overall score is 100  *)
(* and every reported record count is 0, in the NYC and in the Philadelphia *)
(* pipeline.                                                                 *)
C20_NoRecordsScores100 ==
    /\ (scores # NoData /\ ~InPhilly /\ NycNoRecords) =>
           /\ scores.overall_score = 10 * 100
           /\ \A k \in {"hpd_violations_active", "dob_violations_active",
                        "elevator_devices", "boiler_devices",
                        "electrical_permits"} : scores[k] = 0
    /\ (scores # NoData /\ InPhilly /\ PhillyNoRecords) =>
           /\ scores.overall_score = 100
           /\ scores.compliance_score = 100
           /\ \A k \in DOMAIN scores \ {"overall_score", "compliance_score"} :
                  scores[k] = 0

\* every NYC registry call failed and the report shows 100
C20_Witness ==
    /\ Answered
    /\ response.status = 200
    /\ ~InPhilly
    /\ NycNoRecords
    /\ failed # {}
    /\ response.body.scores.overall_score = 10 * 100
    /\ response.body.scores.hpd_violations_active = 0

-----------------------------------------------------------------------------
(* Vocabulary of the Philadelphia properties *)

ListKey(category) ==
    CASE category = "permits" -> "li_permits"
      [] category = "violations" -> "li_violations"
      [] category = "certifications" -> "li_certifications"
      [] category = "certification_summary" -> "certification_summary"
      [] category = "investigations" -> "li_investigations"

BothServed == pc = "philly_data" /\ request = 2

(* C8: when every call to one category's registry fails, that category's    *)
(* record list is empty and the lists of all other categories equal those   *)
(* of a request in which that registry answered in any other way, the other *)
(* registries answering the same.                                           *)
C8_CategoriesIndependent ==
    (BothServed /\ down # "none") =>
        /\ first[ListKey(down)] = <<>>
        /\ \A category \in PhillyCategories \ {down} :
               first[ListKey(category)] = compliance_data[ListKey(category)]

-----------------------------------------------------------------------------
(* Vocabulary of the resolver's properties *)

\* hyphens and spaces removed, lower-cased
Plain(t) ==
    LET bare == SelectSeq(t, LAMBDA x : x \notin {"-", " "})
    IN  [i \in DOMAIN bare |-> Lower(bare[i])]

\* the leading numeric/hyphenated token of the input address, <<>> when none
LeadingToken == LeadingRun(Strip(address), Digits \cup {"-"})

\* get_property_identifiers has returned a bundle chosen among candidates
Returned ==
    /\ pc \in {"resolved", "not_found", "fetch_start"}
    /\ features # NoAnswer
    /\ features.ok
    /\ features.rows # <<>>

\* candidate i's normalized house number equals the input's
SameHouseNumber(i) ==
    /\ LeadingToken # <<>>
    /\ Plain(features.rows[i].housenumber) = Plain(LeadingToken)

\* ... and that normalized house number is not empty
SameNonEmptyHouseNumber(i) == SameHouseNumber(i) /\ Plain(LeadingToken) # <<>>

BundleFields == {"bin", "bbl", "borough", "block", "lot", "address"}

\* the returned bundle carries something that marks it as an unverified match
Marked == DOMAIN identifiers \ BundleFields # {}

(* C9 (as stated): when some candidate's normalized house number equals the  *)
(* input's normalized leading house number, the resolver returns the         *)
(* identifiers of the first such candidate in list order.                    *)
C9_FirstMatchSelected ==
    Returned =>
        \A i \in DOMAIN features.rows :
            (SameHouseNumber(i) /\ \A j \in 1..(i - 1) : ~SameHouseNumber(j))
                => identifiers = Bundle(features.rows[i])

(* C9 (amended): when some candidate's normalized house number is non-empty  *)
(* and equals the input's normalized leading house number, the resolver      *)
(* returns the identifiers of the first such candidate in list order.        *)
C9_FirstNonEmptyMatchSelected ==
    Returned =>
        \A i \in DOMAIN features.rows :
            (/\ SameNonEmptyHouseNumber(i)
             /\ \A j \in 1..(i - 1) : ~SameNonEmptyHouseNumber(j))
                => identifiers = Bundle(features.rows[i])

C9_Witness ==
    /\ Returned
    /\ Len(features.rows) >= 2
    /\ ~SameNonEmptyHouseNumber(1)
    /\ SameNonEmptyHouseNumber(2)
    /\ features.rows[2].housenumber # LeadingToken
    /\ identifiers = Bundle(features.rows[2])
    /\ identifiers # Bundle(features.rows[1])

(* C10: when no candidate's normalized house number equals the input's, the  *)
(* resolver returns the first-ranked candidate's identifiers and the bundle  *)
(* is marked as an unverified match; when some candidate matches, the bundle *)
(* carries no such mark.                                                     *)
C10_FallbackMarkedUnverified ==
    Returned =>
        IF \A i \in DOMAIN features.rows : ~SameNonEmptyHouseNumber(i)
        THEN /\ [k \in BundleFields |-> identifiers[k]] = Bundle(features.rows[1])
             /\ Marked
        ELSE ~Marked

-----------------------------------------------------------------------------
(* Properties of the risk categories *)

\* the categories in the order of their precedence
Precedence ==
    <<"FIRE", "STRUCTURAL", "ELECTRICAL", "MECHANICAL", "PLUMBING", "HOUSING",
      "ZONING">>

TermsOf(category) ==
    CASE category = "FIRE" -> FireTerms
      [] category = "STRUCTURAL" -> StructuralTerms
      [] category = "ELECTRICAL" -> ElectricalTerms
      [] category = "MECHANICAL" -> MechanicalTerms
      [] category = "PLUMBING" -> PlumbingTerms
      [] category = "HOUSING" -> HousingTerms
      [] category = "ZONING" -> ZoningTerms

\* a keyword of the k-th category occurs in the upper-cased text
Occurs(k, text) ==
    \E term \in TermsOf(Precedence[k]) : Contains(UpperText(text), term)

Categorized == pc = "categorize" /\ risk_type # None

\* C21: _categorize_violation_risk returns, for every text, exactly one of the
\* eight categories: the first one in the precedence order with a keyword
\* occurring in the upper-cased text, and OTHER when no keyword occurs or the
\* text is empty.
C21_FirstCategoryInPrecedence ==
    Categorized =>
        /\ risk_type \in Range(Precedence) \cup {"OTHER"}
        /\ \A k \in DOMAIN Precedence :
               (Occurs(k, violationtype) /\ \A j \in 1..(k - 1) : ~Occurs(j, violationtype))
                   => risk_type = Precedence[k]
        /\ (\A k \in DOMAIN Precedence : ~Occurs(k, violationtype))
               => risk_type = "OTHER"
        /\ violationtype \in {NoneT, <<>>} => risk_type = "OTHER"

\* a text with keywords of two categories has been categorized
C21_Witness ==
    /\ Categorized
    /\ Occurs(1, violationtype)
    /\ Occurs(2, violationtype)
    /\ risk_type = "FIRE"

\* the permits that are not recent, the certifications that are expired
OldPermits == SelectSeq(fetched.permits, LAMBDA q : ~_is_recent_permit(q))

RecentPermitCount == Len(fetched.permits) - Len(OldPermits)

ExpiredCertifications == SelectSeq(fetched.certifications, _is_expired_certification)

ActiveCertificationCount == Len(fetched.certifications) - Len(ExpiredCertifications)

\* the client's score for the same lists without the recent permits, and
\* without the certifications that are not expired
WithoutRecentPermits ==
    _calculate_enhanced_compliance_score(fetched.violations, OldPermits,
                                         fetched.certifications)

WithoutActiveCertifications ==
    _calculate_enhanced_compliance_score(fetched.violations, fetched.permits,
                                         ExpiredCertifications)

(* C22: for fixed violations and certifications, the score with any number  *)
(* of recent permits exceeds the score without them by at most 3 each and    *)
(* 15 in all; the active certifications add at most 2 each and 10 in all.    *)
C22_BonusesAreCapped ==
    pc = "bonus" =>
        /\ Enhanced - WithoutRecentPermits >= 0
        /\ Enhanced - WithoutRecentPermits <= Min(3 * RecentPermitCount, 15)
        /\ Enhanced - WithoutActiveCertifications >= 0
        /\ Enhanced - WithoutActiveCertifications <= Min(2 * ActiveCertificationCount, 10)

\* six recent permits and six active certifications earn 15 and 10 points
C22_Witness ==
    /\ pc = "bonus"
    /\ RecentPermitCount = 6
    /\ ActiveCertificationCount = 6
    /\ Enhanced - WithoutRecentPermits = 15
    /\ Enhanced - WithoutActiveCertifications = 10

-----------------------------------------------------------------------------
(* Properties of the assembled report *)

\* a report was assembled, by the service or by the command line
Assembled == pc = "responded" /\ "success" \in DOMAIN response.body

\* the list the pipeline handed to the assembly under that key of `data`
Handed(k) == IF InPhilly THEN compliance_data[k] ELSE result[k]

IsPrefixOfLength(short, full, n) ==
    /\ Len(short) = n
    /\ n <= Len(full)
    /\ \A i \in 1..n : short[i] = full[i]

(* C23: in every assembled report each list of `data` is the prefix of the  *)
(* list handed to the assembly, of length min(50, its length): at most 50    *)
(* records, in the same order, and complete when it is shorter than the cap. *)
C23_DataIsCappedPrefix ==
    Assembled =>
        \A k \in DataKeys :
            IsPrefixOfLength(response.body.data[k], Handed(k),
                             Min(50, Len(Handed(k))))

\* a Philadelphia report with a list that was cut and one passed complete
C23_Witness ==
    /\ Assembled
    /\ InPhilly
    /\ \E k \in DataKeys :
           /\ Len(Handed(k)) > 50
           /\ Len(response.body.data[k]) = 50
    /\ \E k \in DataKeys :
           /\ Len(Handed(k)) = 1
           /\ response.body.data[k] = Handed(k)

-----------------------------------------------------------------------------
(* Properties of repeated and of concurrent requests *)

\* a response without its generation timestamp
Undated(r) ==
    [r EXCEPT !.body = [k \in DOMAIN r.body \ {"generated_at"} |-> r.body[k]]]

\* the address was served a second time
ServedTwice == pc = "responded" /\ first_response # NoData

Paired == parked # NoData

Waiting == 3 - running

(* C25: for two report generations on different addresses whose steps       *)
(* interleave arbitrarily, each request's report equals the report that      *)
(* request gets when served alone with the same upstream responses, and      *)
(* carries that request's own identifiers.                                   *)
C25_PairedEqualsAlone ==
    Paired =>
        /\ pc = "responded" =>
               /\ Undated(response) = Undated(alone[running])
               /\ response.body.property = PairBundle(running)
        /\ parked.pc = "responded" =>
               /\ Undated(parked.response) = Undated(alone[Waiting])
               /\ parked.response.body.property = PairBundle(Waiting)

\* a request was answered, with records, while the other one was in the
\* middle of its fetch with records of its own
C25_Witness ==
    /\ Paired
    /\ pc = "responded"
    /\ response.body.data.hpd_violations # <<>>
    /\ Undated(response) = Undated(alone[running])
    /\ parked.pc = "electrical_query"
    /\ parked.result.hpd_violations # <<>>

-----------------------------------------------------------------------------
(* Properties of the Philadelphia report *)

\* the violation registry returned a record whose status is null
NullStatusFetched ==
    \E i \in DOMAIN fetched.violations : fetched.violations[i].status = NoneT

(* C26: a violation whose status is null counts as not open and has no      *)
(* other effect: the report still holds every fetched violation, permit,     *)
(* certification and investigation, and its score is computed from them.     *)
C26_NullStatusIsContained ==
    (InPhilly /\ pc \in {"philly_data", "philly_scored", "raised", "responded"}
              /\ NullStatusFetched) =>
        /\ compliance_data.li_violations = fetched.violations
        /\ compliance_data.li_permits = fetched.permits
        /\ compliance_data.li_certifications = fetched.certifications
        /\ compliance_data.li_investigations = fetched.investigations
        /\ "compliance_score" \in DOMAIN compliance_data.compliance_summary
        /\ Answered => /\ response.status = 200
                       /\ response.body.data.li_violations = Shown(fetched.violations)
                       /\ response.body.data.li_permits = Shown(fetched.permits)

\* the client produced a compliance score for the property
ClientScored ==
    /\ InPhilly
    /\ scores # NoData
    /\ "compliance_summary" \in DOMAIN property_data

(* C27: whenever the Philadelphia client produced a compliance score,       *)
(* calculate_philly_scores reports exactly that value as overall_score and   *)
(* as compliance_score, for every value in 0..100.                           *)
C27_ClientScoreIsReported ==
    ClientScored =>
        /\ scores.overall_score = Enhanced
        /\ scores.compliance_score = Enhanced

-----------------------------------------------------------------------------
(* Properties of the boiler parser *)

(* C28: parse_boiler_device_info returns a device-info record for every     *)
(* permit record, whether its scope text is empty, matches no model pattern  *)
(* or matches one, and never a null result; get_boiler_data never takes its  *)
(* error path because parse_boiler_device_info returned nothing.             *)
C28_ParserReturnsRecord ==
    /\ pc = "parsed" => /\ device_info # NullResult
                        /\ "device_type" \in DOMAIN device_info
    /\ pc = "boiler_done" =>
           ~("error" \in DOMAIN boiler_report /\ boiler_report.error = "TypeError")

-----------------------------------------------------------------------------
(* Properties of the queries sent to the NYC datasets *)

\* the strategies the dataset was queried with so far, in order
StrategiesTried(dataset) ==
    LET sent == SelectSeq(queries, LAMBDA q : q[1] = dataset)
    IN  [i \in DOMAIN sent |-> sent[i][2]]

\* the elevator block of get_comprehensive_compliance_data is over
ElevatorBlockLeft ==
    pc \in {"elevator_store", "boiler_query", "boiler_store",
            "electrical_strategies", "electrical_query", "electrical_store",
            "fetched", "scored"}

\* its boiler block is over
BoilerBlockLeft ==
    pc \in {"boiler_store", "electrical_strategies", "electrical_query",
            "electrical_store", "fetched", "scored"}

(* C29: in every run of get_comprehensive_compliance_data the HPD and DOB   *)
(* violation datasets are queried only by BIN or by BBL, and the elevator    *)
(* and the boiler dataset are each queried exactly once, by BIN, with no     *)
(* fallback strategy.                                                        *)
C29_QueriesByBinOrBbl ==
    /\ Range(StrategiesTried("hpd_violations")) \subseteq {"BIN", "BBL"}
    /\ Range(StrategiesTried("dob_violations")) \subseteq {"BIN", "BBL"}
    /\ StrategiesTried("elevator_inspections") \in {<<>>, <<"BIN">>}
    /\ StrategiesTried("boiler_inspections") \in {<<>>, <<"BIN">>}
    /\ ElevatorBlockLeft => StrategiesTried("elevator_inspections") = <<"BIN">>
    /\ BoilerBlockLeft => StrategiesTried("boiler_inspections") = <<"BIN">>

\* a run that fell back to the BBL for both violation datasets and whose
\* elevator and boiler queries found nothing
C29_Witness ==
    /\ pc = "fetched"
    /\ StrategiesTried("hpd_violations") = <<"BIN", "BBL">>
    /\ StrategiesTried("dob_violations") = <<"BIN", "BBL">>
    /\ StrategiesTried("elevator_inspections") = <<"BIN">>
    /\ result.elevator_data = <<>>
    /\ result.boiler_data = <<>>
    /\ TruthyT(identifiers.block)

-----------------------------------------------------------------------------
(* Properties of the counts of the NYC report *)

\* the key of `scores` that holds the count of the category
CountKey(category) ==
    CASE category = "hpd_violations" -> "hpd_violations_active"
      [] category = "dob_violations" -> "dob_violations_active"
      [] category = "elevator_data" -> "elevator_devices"
      [] category = "boiler_data" -> "boiler_devices"
      [] category = "electrical_permits" -> "electrical_permits"

NycReport == Assembled /\ ~InPhilly

(* C30: in every NYC report the counts of `scores` and the overall score    *)
(* are computed from the full lists the fetcher accepted, not from the       *)
(* displayed ones: each count is the number of accepted records and the      *)
(* category's list in `data` has min(50, count) records.                     *)
C30_CountsFromFullLists ==
    NycReport =>
        /\ \A c \in Categories :
               /\ response.body.scores[CountKey(c)] = Len(result[c])
               /\ Len(response.body.data[c]) =
                      Min(DisplayCap, response.body.scores[CountKey(c)])
        /\ response.body.scores.overall_score =
               5 * Max(0, 100 - 10 * Len(result.hpd_violations))
               + 5 * Max(0, 100 - 15 * Len(result.dob_violations))

\* a report with more HPD violations than are displayed and exactly as many
\* DOB violations as the display holds
C30_Witness ==
    /\ NycReport
    /\ Len(result.hpd_violations) > DisplayCap
    /\ response.body.scores.hpd_violations_active = Len(result.hpd_violations)
    /\ Len(response.body.data.hpd_violations) = DisplayCap
    /\ response.body.scores.dob_violations_active = DisplayCap
    /\ Len(response.body.data.elevator_data) = 1

====
